---- MODULE Spec2Model ----
(***************************************************************************)
(* A model of the deterministic core of kubebeaver: the intelligence       *)
(* pipeline (signal extractor, classifier, confidence scorer), the         *)
(* redactor and budget truncator of app/sanitize.py, the diff engine of    *)
(* app/diff_engine.py and the heuristics of app/heuristics.py.             *)
(*                                                                         *)
(* Each component has its own specification (SpecIntel, SpecExtract,       *)
(* SpecRedact, SpecTrunc, SpecDiff, SpecDiffSections, SpecHeur); Spec is   *)
(* their union.  The variable pc says which component a behaviour          *)
(* exercises and how far the call sequence has got.                        *)
(***************************************************************************)
EXTENDS Integers, Sequences, FiniteSets, TLC

VARIABLES
    pc,                 \* position of the caller in the call sequence
    signals,            \* intelligence: the signal vector
    findings,           \* intelligence: the classifier's result list
    engine_confidence,  \* intelligence: the scorer's result (millionths)
    evidence,           \* the caller's evidence tree
    sanitized,          \* redactor: sanitize_evidence(evidence)
    resanitized,        \* redactor: sanitize_evidence(sanitized)
    max_chars,          \* truncator: the character budget
    truncated,          \* truncator: the tree the first call returned
    report,             \* truncator: the report the first call returned
    retruncated,        \* truncator: the tree the second call returned
    rereport,           \* truncator: the report the second call returned
    analysis_a,         \* diff engine: the older snapshot
    analysis_b,         \* diff engine: the newer snapshot
    changes,            \* diff engine: compute_diffs' result, or its raising
    heuristics          \* heuristics: compute_heuristics' result, or its raising

varsIntel == <<signals, findings, engine_confidence>>

varsRedact == <<evidence, sanitized, resanitized>>

varsTrunc == <<max_chars, truncated, report, retruncated, rereport>>

varsDiff == <<analysis_a, analysis_b, changes>>

varsHeur == <<heuristics>>

vars == <<pc, varsIntel, varsRedact, varsTrunc, varsDiff, varsHeur>>

----------------------------------------------------------------------------
(* Generic helpers                                                         *)

Min(a, b) == IF a <= b THEN a ELSE b

Max(a, b) == IF a >= b THEN a ELSE b

Range(s) == {s[i] : i \in 1..Len(s)}

\* F(x) with x as a value: the name of a LET stands for its expression
\* wherever it is used, a bound variable stands for the value computed.
Bind(x, F(_)) == CHOOSE y \in {F(v) : v \in {x}} : TRUE

----------------------------------------------------------------------------
(* Evidence trees and strings                                              *)
(*                                                                         *)
(* A Python str is a sequence of one-character strings, so that lower(),   *)
(* strip(), replace(), substring tests and len() are computed.  A JSON     *)
(* value is a record with the same four fields whatever its type:          *)
(*   t    "str", "int", "bool", "null", "list" or "dict"                   *)
(*   s    the characters of a str                                          *)
(*   n    the number of an int; 1 / 0 for the bool True / False            *)
(*   kids the items of a list or dict, in order, each [k |-> key, v |->    *)
(*        value]; the key of a list item is the empty string               *)

Str(s) == [t |-> "str", s |-> s, n |-> 0, kids |-> <<>>]

Num(n) == [t |-> "int", s |-> <<>>, n |-> n, kids |-> <<>>]

Bool(b) == [t |-> "bool", s |-> <<>>, n |-> IF b THEN 1 ELSE 0, kids |-> <<>>]

Null == [t |-> "null", s |-> <<>>, n |-> 0, kids |-> <<>>]

Item(k, v) == [k |-> k, v |-> v]

\* a list of the values vs (a sequence of values)
List(vs) ==
    [t |-> "list", s |-> <<>>, n |-> 0,
     kids |-> [i \in 1..Len(vs) |-> Item(<<>>, vs[i])]]

\* a dict of the items given (a sequence of Item(k, v), keys distinct)
Dict(items) == [t |-> "dict", s |-> <<>>, n |-> 0, kids |-> items]

EmptyDict == Dict(<<>>)

Rep(c, n) == [i \in 1..n |-> c]

UpperCase ==
    <<"A", "B", "C", "D", "E", "F", "G", "H", "I", "J", "K", "L", "M",
      "N", "O", "P", "Q", "R", "S", "T", "U", "V", "W", "X", "Y", "Z">>

LowerCase ==
    <<"a", "b", "c", "d", "e", "f", "g", "h", "i", "j", "k", "l", "m",
      "n", "o", "p", "q", "r", "s", "t", "u", "v", "w", "x", "y", "z">>

Digits == {"0", "1", "2", "3", "4", "5", "6", "7", "8", "9"}

Whitespace == {" ", "\t", "\n", "\r"}

LowerChar(c) ==
    IF \E i \in 1..26 : UpperCase[i] = c
    THEN LowerCase[CHOOSE i \in 1..26 : UpperCase[i] = c]
    ELSE c

\* str.lower()
Lower(s) == [i \in 1..Len(s) |-> LowerChar(s[i])]

\* str.replace(c, "") for a one-character c
Without(s, c) == SelectSeq(s, LAMBDA x : x # c)

\* sub in s
Contains(s, sub) ==
    \E i \in 0..(Len(s) - Len(sub)) : SubSeq(s, i + 1, i + Len(sub)) = sub

\* str.strip()
Strip(s) ==
    LET keep == {i \in 1..Len(s) : s[i] \notin Whitespace}
    IN  IF keep = {} THEN <<>>
        ELSE SubSeq(s, CHOOSE i \in keep : \A j \in keep : i <= j,
                       CHOOSE i \in keep : \A j \in keep : i >= j)

----------------------------------------------------------------------------
(* Redactor: app/sanitize.py                                               *)

REDACT_KEYS ==
    {<<"t", "o", "k", "e", "n">>, <<"b", "e", "a", "r", "e", "r">>,
     <<"a", "u", "t", "h", "o", "r", "i", "z", "a", "t", "i", "o", "n">>,
     <<"s", "e", "c", "r", "e", "t">>, <<"p", "a", "s", "s", "w", "o", "r", "d">>,
     <<"a", "p", "i", "_", "k", "e", "y">>, <<"a", "p", "i", "k", "e", "y">>,
     <<"c", "r", "e", "d", "e", "n", "t", "i", "a", "l", "s">>,
     <<"c", "o", "o", "k", "i", "e">>, <<"a", "u", "t", "h">>,
     <<"p", "r", "i", "v", "a", "t", "e", "_", "k", "e", "y">>,
     <<"c", "l", "i", "e", "n", "t", "_", "s", "e", "c", "r", "e", "t">>}

\* the alternatives of REDACT_ENV_PATTERN's first group, lower-cased (the
\* pattern is compiled with re.IGNORECASE)
REDACT_ENV_WORDS ==
    {<<"p", "a", "s", "s", "w", "o", "r", "d">>, <<"s", "e", "c", "r", "e", "t">>,
     <<"t", "o", "k", "e", "n">>, <<"k", "e", "y">>,
     <<"c", "r", "e", "d", "e", "n", "t", "i", "a", "l">>,
     <<"p", "r", "i", "v", "a", "t", "e">>, <<"a", "u", "t", "h">>}

\* the substrings _redact_value looks for in a lower-cased string value
REDACT_VALUE_WORDS ==
    {<<"b", "e", "a", "r", "e", "r", " ">>, <<"b", "a", "s", "i", "c", " ">>,
     <<"t", "o", "k", "e", "n">>}

REDACTED == <<"[", "R", "E", "D", "A", "C", "T", "E", "D", "]">>

REDACTED_BASE64 ==
    <<"[", "R", "E", "D", "A", "C", "T", "E", "D", "_", "B", "A", "S", "E", "6", "4", "]">>

REDACTED_ENV ==
    <<"[", "R", "E", "D", "A", "C", "T", "E", "D", "_", "E", "N", "V", "]">>

\* Mutant marker: a marker that itself names a token.
REDACTED_TOKEN ==
    <<"[", "R", "E", "D", "A", "C", "T", "E", "D", "_", "T", "O", "K", "E", "N", "_", "E", "N", "V", "]">>

\* shortest run of base64 characters BASE64_PATTERN accepts
Base64MinRun == 50

\* _redact_value scans for base64 only strings longer than this
Base64MinLen == 40

IsWordChar(c) ==
    \/ c \in Digits
    \/ c = "_"
    \/ \E i \in 1..26 : c = UpperCase[i] \/ c = LowerCase[i]

IsBase64Char(c) ==
    \/ c \in Digits
    \/ c \in {"+", "/"}
    \/ \E i \in 1..26 : c = UpperCase[i] \/ c = LowerCase[i]

\* BASE64_PATTERN.fullmatch(s): [A-Za-z0-9+/]{50,}={0,2}
Base64FullMatch(s) ==
    \E pad \in 0..2 :
        /\ Len(s) - pad >= Base64MinRun
        /\ \A i \in 1..(Len(s) - pad) : IsBase64Char(s[i])
        /\ \A i \in (Len(s) - pad + 1)..Len(s) : s[i] = "="

\* REDACT_ENV_PATTERN.match(s):
\* (PASSWORD|SECRET|TOKEN|KEY|CREDENTIAL|PRIVATE|AUTH)(_[A-Z0-9_]*)?=.*
EnvMatch(s) ==
    \E w \in REDACT_ENV_WORDS :
        /\ Len(s) > Len(w)
        /\ Lower(SubSeq(s, 1, Len(w))) = w
        /\ \/ s[Len(w) + 1] = "="
           \/ /\ s[Len(w) + 1] = "_"
              /\ \E e \in (Len(w) + 2)..Len(s) :
                    /\ s[e] = "="
                    /\ \A i \in (Len(w) + 2)..(e - 1) : IsWordChar(s[i])

\* Mutant: the environment-variable marker names a token.
RedactStringTokenMarker(val) ==
    IF \E k \in REDACT_VALUE_WORDS : Contains(Lower(val), k)
    THEN REDACTED
    ELSE IF Len(val) > Base64MinLen /\ Base64FullMatch(Strip(val))
    THEN REDACTED_BASE64
    ELSE IF EnvMatch(Strip(val))
    THEN REDACTED_TOKEN
    ELSE val

\* the string branch of _redact_value
RedactString(val) ==
    IF \E k \in REDACT_VALUE_WORDS : Contains(Lower(val), k)
    THEN REDACTED
    ELSE IF Len(val) > Base64MinLen /\ Base64FullMatch(Strip(val))
    THEN REDACTED_BASE64
    ELSE IF EnvMatch(Strip(val))
    THEN REDACTED_ENV
    ELSE val

RECURSIVE _redact_value(_)
_redact_value(val) ==
    IF val.t \in {"dict", "list"}
    THEN [val EXCEPT !.kids =
             [i \in 1..Len(val.kids) |->
                 Item(val.kids[i].k, _redact_value(val.kids[i].v))]]
    ELSE IF val.t = "str"
    THEN Str(RedactString(val.s))
    ELSE val

\* key_lower = k.lower().replace("_", "").replace("-", "") contains some
\* rk.replace("_", "")
IsRedactKey(k) ==
    LET key_lower == Without(Without(Lower(k), "_"), "-")
    IN  \E rk \in REDACT_KEYS : Contains(key_lower, Without(rk, "_"))

\* _redact_dict with the key rule applied to string values only
_redact_dict_key_rule_on_strings(obj) ==
    Dict([i \in 1..Len(obj.kids) |->
             IF IsRedactKey(obj.kids[i].k) /\ obj.kids[i].v.t = "str"
             THEN Item(obj.kids[i].k, Str(REDACTED))
             ELSE Item(obj.kids[i].k, _redact_value(obj.kids[i].v))])

_redact_dict(obj) ==
    Dict([i \in 1..Len(obj.kids) |->
             IF IsRedactKey(obj.kids[i].k)
             THEN Item(obj.kids[i].k, Str(REDACTED))
             ELSE Item(obj.kids[i].k, _redact_value(obj.kids[i].v))])

sanitize_evidence(ev) == _redact_dict(ev)

----------------------------------------------------------------------------
(* Serialization: json.dumps(x, default=str) and str(x)                    *)
(*                                                                         *)
(* The strings of the trees drawn hold no control characters and no        *)
(* non-ASCII characters, so a character of a string is written as itself   *)
(* except for the double quote and the backslash, which json.dumps         *)
(* escapes with one more character.                                        *)

RECURSIVE IntChars(_)
\* str(n) for an integer n
IntChars(n) ==
    IF n < 0 THEN <<"-">> \o IntChars(0 - n)
    ELSE LET d == <<"0", "1", "2", "3", "4", "5", "6", "7", "8", "9">>[(n % 10) + 1]
         IN  IF n < 10 THEN <<d>> ELSE IntChars(n \div 10) \o <<d>>

RECURSIVE SumRange(_, _, _)
\* f[lo] + ... + f[hi], by halves
SumRange(f, lo, hi) ==
    IF lo > hi THEN 0
    ELSE IF lo = hi THEN f[lo]
    ELSE LET mid == (lo + hi) \div 2
         IN  SumRange(f, lo, mid) + SumRange(f, mid + 1, hi)

\* f[1] + ... + f[n]
SumTo(f, n) == SumRange(f, 1, n)

JsonStrLen(s) ==
    Len(s) + 2 + Cardinality({i \in 1..Len(s) : s[i] \in {"\"", "\\"}})

RECURSIVE JsonLen(_)
\* len(json.dumps(val, default=str)): items joined by ", ", keys by ": "
JsonLen(val) ==
    CASE val.t = "str" -> JsonStrLen(val.s)
      [] val.t = "int" -> Len(IntChars(val.n))
      [] val.t = "bool" -> IF val.n = 1 THEN 4 ELSE 5
      [] val.t = "null" -> 4
      [] val.t = "list" ->
            LET n == Len(val.kids)
            IN  2 + SumTo([i \in 1..n |-> JsonLen(val.kids[i].v)], n)
                  + (IF n > 1 THEN 2 * (n - 1) ELSE 0)
      [] val.t = "dict" ->
            LET n == Len(val.kids)
            IN  2 + SumTo([i \in 1..n |->
                              JsonStrLen(val.kids[i].k) + 2
                              + JsonLen(val.kids[i].v)], n)
                  + (IF n > 1 THEN 2 * (n - 1) ELSE 0)

RECURSIVE JoinRange(_, _, _)
\* ", ".join(parts[lo..hi]), by halves
JoinRange(parts, lo, hi) ==
    IF lo > hi THEN <<>>
    ELSE IF lo = hi THEN parts[lo]
    ELSE LET mid == (lo + hi) \div 2
         IN  JoinRange(parts, lo, mid) \o <<",", " ">>
             \o JoinRange(parts, mid + 1, hi)

\* ", ".join(parts) for parts[1..n]
Join(parts, n) == JoinRange(parts, 1, n)

\* repr(s) of a str s: single quotes, unless s holds one and no double quote
StrRepr(s) ==
    IF (\E i \in 1..Len(s) : s[i] = "'") /\ ~(\E i \in 1..Len(s) : s[i] = "\"")
    THEN <<"\"">> \o s \o <<"\"">>
    ELSE <<"'">> \o s \o <<"'">>

RECURSIVE PyRepr(_)
\* str(val) of a Python value
PyRepr(val) ==
    CASE val.t = "str" -> StrRepr(val.s)
      [] val.t = "int" -> IntChars(val.n)
      [] val.t = "bool" -> IF val.n = 1 THEN <<"T", "r", "u", "e">>
                                        ELSE <<"F", "a", "l", "s", "e">>
      [] val.t = "null" -> <<"N", "o", "n", "e">>
      [] val.t = "list" ->
            <<"[">> \o Join([i \in 1..Len(val.kids) |-> PyRepr(val.kids[i].v)],
                            Len(val.kids)) \o <<"]">>
      [] val.t = "dict" ->
            <<"{">> \o Join([i \in 1..Len(val.kids) |->
                                StrRepr(val.kids[i].k) \o <<":", " ">>
                                \o PyRepr(val.kids[i].v)],
                            Len(val.kids)) \o <<"}">>

----------------------------------------------------------------------------
(* Mapping operations                                                      *)

HasKey(d, k) == \E i \in 1..Len(d.kids) : d.kids[i].k = k

KeyIndex(d, k) == CHOOSE i \in 1..Len(d.kids) : d.kids[i].k = k

\* d[k]
Get(d, k) == d.kids[KeyIndex(d, k)].v

\* d[k] = v: in place when the key exists, else appended
SetKey(d, k, v) ==
    IF HasKey(d, k)
    THEN [d EXCEPT !.kids[KeyIndex(d, k)].v = v]
    ELSE [d EXCEPT !.kids = Append(@, Item(k, v))]

Keys(d) == [i \in 1..Len(d.kids) |-> d.kids[i].k]

----------------------------------------------------------------------------
(* JSON text: json.dumps and json.loads                                    *)
(*                                                                         *)
(* Texts are sequences of characters.  The texts drawn hold no backslash   *)
(* escapes, no fractions and no exponents; the parser rejects them.        *)

\* json.dumps(s) of a str without characters to escape
JsonStr(s) == <<"\"">> \o s \o <<"\"">>

RECURSIVE JsonDumps(_)
\* json.dumps(val, default=str)
JsonDumps(val) ==
    CASE val.t = "str" -> JsonStr(val.s)
      [] val.t = "int" -> IntChars(val.n)
      [] val.t = "bool" -> IF val.n = 1 THEN <<"t", "r", "u", "e">>
                                        ELSE <<"f", "a", "l", "s", "e">>
      [] val.t = "null" -> <<"n", "u", "l", "l">>
      [] val.t = "list" ->
            <<"[">> \o Join([i \in 1..Len(val.kids) |-> JsonDumps(val.kids[i].v)],
                            Len(val.kids)) \o <<"]">>
      [] val.t = "dict" ->
            <<"{">> \o Join([i \in 1..Len(val.kids) |->
                                JsonStr(val.kids[i].k) \o <<":", " ">>
                                \o JsonDumps(val.kids[i].v)],
                            Len(val.kids)) \o <<"}">>

\* the result of a parsing step: ok, the value read, the next position
Parsed(v, i) == [ok |-> TRUE, val |-> v, pos |-> i]

NotParsed == [ok |-> FALSE, val |-> Null, pos |-> 0]

RECURSIVE ScanRange(_, _, _, _, _)
\* the first position of lo..hi whose character is in cs (want) or is not
\* in cs (~want); hi + 1 if there is none.  The range is halved so that a
\* long text is scanned at a small depth.
ScanRange(txt, lo, hi, cs, want) ==
    IF lo > hi THEN hi + 1
    ELSE IF lo = hi THEN (IF (txt[lo] \in cs) = want THEN lo ELSE hi + 1)
    ELSE LET mid == (lo + hi) \div 2
             left == ScanRange(txt, lo, mid, cs, want)
         IN  IF left <= mid THEN left
             ELSE ScanRange(txt, mid + 1, hi, cs, want)

\* the first position from i on that holds no whitespace (Len(txt) + 1 at
\* the end of the text)
SkipWs(txt, i) == ScanRange(txt, i, Len(txt), Whitespace, FALSE)

\* the first position from i on that holds a character of the set cs;
\* Len(txt) + 1 if there is none
ScanTo(txt, i, cs) == ScanRange(txt, i, Len(txt), cs, TRUE)

HasAt(txt, i, word) ==
    /\ i + Len(word) - 1 <= Len(txt)
    /\ SubSeq(txt, i, i + Len(word) - 1) = word

\* a string literal starting at the quote at position i
ParseString(txt, i) ==
    LET close == ScanTo(txt, i + 1, {"\"", "\\", "\t", "\n", "\r"})
    IN  IF close > Len(txt) \/ txt[close] # "\"" THEN NotParsed
        ELSE Parsed(Str(SubSeq(txt, i + 1, close - 1)), close + 1)

\* the characters of the texts drawn that are no digits
NonDigits ==
    {UpperCase[i] : i \in 1..26} \cup {LowerCase[i] : i \in 1..26}
    \cup Whitespace
    \cup {"\"", "\\", "{", "}", "[", "]", ":", ",", ".", "-", "+", "_", "/",
          "=", "(", ")", "'", "!", "*", "#", "<", ">", "?", "@", "%", "&", ";"}

DigitValue(c) ==
    CHOOSE d \in 0..9 :
        <<"0", "1", "2", "3", "4", "5", "6", "7", "8", "9">>[d + 1] = c

RECURSIVE DigitsValue(_, _, _)
\* the number written by the digits txt[lo..hi]
DigitsValue(txt, lo, hi) ==
    IF lo > hi THEN 0
    ELSE 10 * DigitsValue(txt, lo, hi - 1) + DigitValue(txt[hi])

\* an integer literal starting at position i: -?(0|[1-9][0-9]*)
ParseNumber(txt, i) ==
    LET neg == txt[i] = "-"
        first == IF neg THEN i + 1 ELSE i
        stop == ScanTo(txt, first, NonDigits)
        last == IF txt[first] = "0" THEN first ELSE stop - 1
    IN  IF first > Len(txt) \/ stop = first THEN NotParsed
        ELSE IF last + 1 <= Len(txt) /\ txt[last + 1] \in {".", "e", "E"}
        THEN NotParsed
        ELSE Parsed(Num(IF neg THEN 0 - DigitsValue(txt, first, last)
                               ELSE DigitsValue(txt, first, last)),
                    last + 1)

RECURSIVE ParseValue(_, _), ParseItems(_, _, _), ParseMembers(_, _, _)

\* the items of an array after "[" or after a ",": i is where the next
\* value starts; acc holds the values read
ParseItems(txt, i, acc) ==
    LET v == ParseValue(txt, i)
    IN  IF ~v.ok THEN NotParsed
        ELSE LET j == SkipWs(txt, v.pos)
                 more == Append(acc, v.val)
             IN  IF j > Len(txt) THEN NotParsed
                 ELSE IF txt[j] = "]" THEN Parsed(List(more), j + 1)
                 ELSE IF txt[j] = "," THEN ParseItems(txt, SkipWs(txt, j + 1), more)
                 ELSE NotParsed

\* the members of an object after "{" or after a ",": i is where the next
\* key starts; acc is the mapping read so far (a repeated key keeps its
\* place and takes the later value)
ParseMembers(txt, i, acc) ==
    IF i > Len(txt) \/ txt[i] # "\"" THEN NotParsed
    ELSE LET k == ParseString(txt, i)
         IN  IF ~k.ok THEN NotParsed
             ELSE LET c == SkipWs(txt, k.pos)
                  IN  IF c > Len(txt) \/ txt[c] # ":" THEN NotParsed
                      ELSE LET v == ParseValue(txt, SkipWs(txt, c + 1))
                           IN  IF ~v.ok THEN NotParsed
                               ELSE LET j == SkipWs(txt, v.pos)
                                        more == SetKey(acc, k.val.s, v.val)
                                    IN  IF j > Len(txt) THEN NotParsed
                                        ELSE IF txt[j] = "}"
                                        THEN Parsed(more, j + 1)
                                        ELSE IF txt[j] = ","
                                        THEN ParseMembers(txt, SkipWs(txt, j + 1), more)
                                        ELSE NotParsed

\* the JSON value starting at position i
ParseValue(txt, i) ==
    IF i > Len(txt) THEN NotParsed
    ELSE IF txt[i] = "\"" THEN ParseString(txt, i)
    ELSE IF txt[i] = "{" THEN
        LET j == SkipWs(txt, i + 1)
        IN  IF j <= Len(txt) /\ txt[j] = "}" THEN Parsed(EmptyDict, j + 1)
            ELSE ParseMembers(txt, j, EmptyDict)
    ELSE IF txt[i] = "[" THEN
        LET j == SkipWs(txt, i + 1)
        IN  IF j <= Len(txt) /\ txt[j] = "]" THEN Parsed(List(<<>>), j + 1)
            ELSE ParseItems(txt, j, <<>>)
    ELSE IF HasAt(txt, i, <<"n", "u", "l", "l">>) THEN Parsed(Null, i + 4)
    ELSE IF HasAt(txt, i, <<"t", "r", "u", "e">>) THEN Parsed(Bool(TRUE), i + 4)
    ELSE IF HasAt(txt, i, <<"f", "a", "l", "s", "e">>)
    THEN Parsed(Bool(FALSE), i + 5)
    ELSE IF txt[i] = "-" \/ txt[i] \in Digits THEN ParseNumber(txt, i)
    ELSE NotParsed

\* json.loads(txt): ok is FALSE where json.loads raises JSONDecodeError
JsonLoads(txt) ==
    LET v == ParseValue(txt, SkipWs(txt, 1))
    IN  IF v.ok /\ SkipWs(txt, v.pos) = Len(txt) + 1 THEN v ELSE NotParsed

----------------------------------------------------------------------------
(* Budget truncator: truncate_evidence_for_llm in app/sanitize.py          *)

\* the sections shortened first, in the order the code visits them
LOG_KEYS ==
    <<<<"p", "o", "d", "_", "l", "o", "g", "s">>,
      <<"p", "r", "e", "v", "i", "o", "u", "s", "_", "l", "o", "g", "s">>,
      <<"e", "v", "e", "n", "t", "s">>,
      <<"p", "o", "d", "_", "e", "v", "e", "n", "t", "s">>>>

\* entries kept of a list section
ListKeep == 50

\* lines kept per container of a mapping section
LinesKeep == 200

\* containers of a mapping section that are looked at
ContainersSeen == 10

\* characters of str(truncated) kept in _summary
SummaryKeep == 2000

FULL_EVIDENCE_TRUNCATED ==
    <<"_", "f", "u", "l", "l", "_", "e", "v", "i", "d", "e", "n", "c", "e", "_", "t", "r", "u", "n", "c", "a", "t", "e", "d">>

SUMMARY == <<"_", "s", "u", "m", "m", "a", "r", "y">>

\* f"_{key}_truncated"
TruncatedMarkerKey(key) ==
    <<"_">> \o key \o <<"_", "t", "r", "u", "n", "c", "a", "t", "e", "d">>

\* f"[TRUNCATED: {n} chars]"
TruncatedPlaceholder(n) ==
    <<"[", "T", "R", "U", "N", "C", "A", "T", "E", "D", ":", " ">>
    \o IntChars(n) \o <<" ", "c", "h", "a", "r", "s", "]">>

StartsWithUnderscore(k) == Len(k) > 0 /\ k[1] = "_"

\* the containers of a mapping section whose line list is shortened
LongLogs(d) ==
    {i \in 1..Len(d.kids) :
        /\ i <= ContainersSeen
        /\ d.kids[i].v.t = "list"
        /\ Len(d.kids[i].v.kids) > LinesKeep}

\* subv[-200:]
LastLines(subv) ==
    [subv EXCEPT !.kids = SubSeq(@, Len(@) - LinesKeep + 1, Len(@))]

\* the mapping section after truncated[key][subk] = subv[-200:] for each
\* long container
CutLogs(d) ==
    [d EXCEPT !.kids =
        [i \in 1..Len(d.kids) |->
            IF i \in LongLogs(d)
            THEN Item(d.kids[i].k, LastLines(d.kids[i].v))
            ELSE d.kids[i]]]

RECURSIVE CutLogSections(_, _, _)
\* f"{key}.{subk}" for the long containers among the first n, in order
CutLogSections(d, key, n) ==
    IF n = 0 THEN <<>>
    ELSE CutLogSections(d, key, n - 1)
         \o (IF n \in LongLogs(d)
             THEN <<key \o <<".">> \o d.kids[n].k>> ELSE <<>>)

\* One round of the loop over LOG_KEYS (sanitize.py:79-93).  st holds the
\* caller's tree (evidence), the shallow copy (truncated) and the sections
\* reported so far.  The copy shares its values with the caller's tree, so
\* the assignment into truncated[key][subk] is seen through both.
ShrinkSection(st, key) ==
    IF ~HasKey(st.truncated, key)
       \/ Get(st.truncated, key).t \notin {"list", "dict", "str"}
    THEN st
    ELSE LET orig == Get(st.truncated, key)
         IN  IF orig.t = "list"
             THEN IF Len(orig.kids) > ListKeep
                  THEN [st EXCEPT
                          !.truncated =
                              SetKey(SetKey(@, key,
                                  [orig EXCEPT !.kids = SubSeq(@, 1, ListKeep)]),
                                  TruncatedMarkerKey(key),
                                  Num(Len(orig.kids) - ListKeep)),
                          !.sections = Append(@, key)]
                  ELSE st
             ELSE IF orig.t = "dict"
             THEN [st EXCEPT
                     !.truncated = SetKey(@, key, CutLogs(orig)),
                     !.evidence = SetKey(@, key, CutLogs(orig)),
                     !.sections = @ \o CutLogSections(orig, key, Len(orig.kids))]
             ELSE st

RECURSIVE ShrinkSections(_, _)
ShrinkSections(st, i) ==
    IF i > Len(LOG_KEYS) THEN st
    ELSE ShrinkSections(ShrinkSection(st, LOG_KEYS[i]), i + 1)

\* max(sizes, key=sizes.get) over the keys not starting with "_": the first
\* of the largest
LargestKey(tr) ==
    LET cand == {i \in 1..Len(tr.kids) : ~StartsWithUnderscore(tr.kids[i].k)}
        big == {i \in cand :
                   \A j \in cand : JsonLen(tr.kids[j].v) <= JsonLen(tr.kids[i].v)}
    IN  CHOOSE i \in big : \A j \in big : i <= j

RECURSIVE DropLargest(_, _, _, _)
\* the loop "for k in list(truncated.keys())" of the last resort
\* (sanitize.py:100-112), from position i of the key list ks
DropLargest(st, ks, i, max_c) ==
    IF i > Len(ks) THEN st
    ELSE IF StartsWithUnderscore(ks[i]) \/ ks[i] \in Range(LOG_KEYS)
    THEN DropLargest(st, ks, i + 1, max_c)
    ELSE IF JsonLen(st.truncated) <= max_c
    THEN st
    ELSE LET tr == st.truncated
             drop == LargestKey(tr)
             size == JsonLen(tr.kids[drop].v)
         IN  DropLargest(
                 [st EXCEPT
                     !.truncated.kids[drop].v = Str(TruncatedPlaceholder(size)),
                     !.sections = Append(@, tr.kids[drop].k)],
                 ks, i + 1, max_c)

\* the last resort (sanitize.py:96-112)
LastResort(st, max_c) ==
    LET flagged == SetKey(st.truncated, FULL_EVIDENCE_TRUNCATED, Bool(TRUE))
        text == PyRepr(flagged)
        summed == SetKey(flagged, SUMMARY,
                         Str(SubSeq(text, 1, Min(Len(text), SummaryKeep))
                             \o <<".", ".", ".">>))
    IN  DropLargest([st EXCEPT !.truncated = summed], Keys(summed), 1, max_c)

Report(flag, sections, before, after) ==
    [truncated |-> flag, sections_truncated |-> sections,
     total_chars_before |-> before, total_chars_after |-> after]

\* Mutant: no early return for a tree that fits the budget.
truncate_evidence_for_llm_always_cuts(ev, max_c) ==
    LET total_before == JsonLen(ev)
        shrunk == ShrinkSections(
                      [evidence |-> ev, truncated |-> ev, sections |-> <<>>], 1)
        done == IF JsonLen(shrunk.truncated) > max_c
                THEN LastResort(shrunk, max_c) ELSE shrunk
    IN  [evidence |-> done.evidence, truncated |-> done.truncated,
         report |-> Report(TRUE, done.sections, total_before,
                           JsonLen(done.truncated))]

\* The call truncate_evidence_for_llm(ev, max_c): the tree and the report
\* it returns, and the caller's tree as the call leaves it.
truncate_evidence_for_llm(ev, max_c) ==
    LET total_before == JsonLen(ev)
    IN  IF total_before <= max_c
        THEN [evidence |-> ev, truncated |-> ev,
              report |-> Report(FALSE, <<>>, total_before, total_before)]
        ELSE LET shrunk == ShrinkSections(
                     [evidence |-> ev, truncated |-> ev, sections |-> <<>>], 1)
                 done == IF JsonLen(shrunk.truncated) > max_c
                         THEN LastResort(shrunk, max_c) ELSE shrunk
             IN  [evidence |-> done.evidence, truncated |-> done.truncated,
                  report |-> Report(TRUE, done.sections, total_before,
                                    JsonLen(done.truncated))]

----------------------------------------------------------------------------
(* Python value semantics used by the diff engine                          *)

\* the outcome of an expression that raised (AttributeError, TypeError, ...)
Err == [t |-> "error", s |-> <<>>, n |-> 0, kids |-> <<>>]

IsErr(v) == v.t = "error"

\* bool(v)
Truthy(v) ==
    CASE v.t = "str" -> Len(v.s) > 0
      [] v.t \in {"int", "bool"} -> v.n # 0
      [] v.t = "null" -> FALSE
      [] v.t \in {"list", "dict"} -> Len(v.kids) > 0

\* v or d
PyOr(v, d) == IF IsErr(v) THEN Err ELSE IF Truthy(v) THEN v ELSE d

\* obj.get(k, d); AttributeError when obj is no mapping
DictGet(obj, k, d) ==
    IF obj.t # "dict" THEN Err
    ELSE IF HasKey(obj, k) THEN Get(obj, k) ELSE d

\* the value under key k of a mapping, d where obj is no mapping or has no k
ChildOr(obj, k, d) == IF obj.t = "dict" /\ HasKey(obj, k) THEN Get(obj, k) ELSE d

RECURSIVE PyEq(_, _)
\* a == b: mappings compare without regard to key order, True == 1
PyEq(a, b) ==
    CASE a.t = "dict" /\ b.t = "dict" ->
            /\ Len(a.kids) = Len(b.kids)
            /\ \A i \in 1..Len(a.kids) :
                  /\ HasKey(b, a.kids[i].k)
                  /\ PyEq(a.kids[i].v, Get(b, a.kids[i].k))
      [] a.t = "list" /\ b.t = "list" ->
            /\ Len(a.kids) = Len(b.kids)
            /\ \A i \in 1..Len(a.kids) : PyEq(a.kids[i].v, b.kids[i].v)
      [] a.t = "str" /\ b.t = "str" -> a.s = b.s
      [] a.t \in {"int", "bool"} /\ b.t \in {"int", "bool"} -> a.n = b.n
      [] a.t = "null" /\ b.t = "null" -> TRUE
      [] OTHER -> FALSE

\* str(v), as an f-string formats v
PyStr(v) == IF v.t = "str" THEN v.s ELSE PyRepr(v)

\* len(v); -1 when v has no len()
PyLen(v) ==
    CASE v.t = "str" -> Len(v.s)
      [] v.t \in {"list", "dict"} -> Len(v.kids)
      [] OTHER -> -1

\* v[:n] of a str or list; Err for any other type
Prefix(v, n) ==
    CASE v.t = "str" -> Str(SubSeq(v.s, 1, Min(Len(v.s), n)))
      [] v.t = "list" -> [v EXCEPT !.kids = SubSeq(@, 1, Min(Len(@), n))]
      [] OTHER -> Err

\* The result of a diff function: the records it appended, or raised.
Ok(recs) == [raised |-> FALSE, list |-> recs]

Raised == [raised |-> TRUE, list |-> <<>>]

RECURSIVE Concat(_, _)
\* the lists of parts[1..n] one after the other
Concat(parts, n) ==
    IF n = 0 THEN <<>> ELSE Concat(parts, n - 1) \o parts[n].list

\* changes.extend(parts[1]); ...; changes.extend(parts[n]): an exception in
\* any part ends the call
Flatten(parts, n) ==
    Bind(parts, LAMBDA done :
        IF \E i \in 1..n : done[i].raised THEN Raised
        ELSE Ok(Concat(done, n)))

\* changes.extend(r1); changes.extend(r2)
Then(r1, r2) == Flatten(<<r1, r2>>, 2)

\* Mutant: a record with the older and the newer value exchanged.
ChangeRecordExchanged(type, path, before, after, impact) ==
    [type |-> type, path |-> path, before |-> after, after |-> before,
     impact |-> impact]

ChangeRecord(type, path, before, after, impact) ==
    [type |-> type, path |-> path, before |-> before, after |-> after,
     impact |-> impact]

----------------------------------------------------------------------------
(* Diff engine: app/diff_engine.py                                         *)

\* characters of a summary kept in a summary record
SummaryRecordKeep == 200

\* characters of an event message kept in an impact text
MessageKeep == 100

RECURSIVE SalvageRange(_, _, _)
\* the largest i of lo..hi for which trimmed[:i] + "}" parses, 0 if there
\* is none (the range is halved, the upper half first)
SalvageRange(trimmed, lo, hi) ==
    IF lo > hi THEN 0
    ELSE IF lo = hi
    THEN (IF JsonLoads(SubSeq(trimmed, 1, lo) \o <<"}">>).ok THEN lo ELSE 0)
    ELSE LET mid == (lo + hi) \div 2
             upper == SalvageRange(trimmed, mid + 1, hi)
         IN  IF upper # 0 THEN upper ELSE SalvageRange(trimmed, lo, mid)

\* the loop "for i in range(len(trimmed), 0, -1)" of _parse_evidence: the
\* longest prefix that parses once "}" is appended, else {}
SalvageFrom(trimmed, n) ==
    LET i == SalvageRange(trimmed, 1, n)
    IN  IF i = 0 THEN EmptyDict
        ELSE JsonLoads(SubSeq(trimmed, 1, i) \o <<"}">>).val

\* _parse_evidence(evidence_summary), for a summary that is a str or None
_parse_evidence(evidence_summary) ==
    IF ~Truthy(evidence_summary) \/ Strip(evidence_summary.s) = <<>>
    THEN EmptyDict
    ELSE LET r == JsonLoads(evidence_summary.s)
         IN  IF r.ok THEN r.val
             ELSE LET trimmed == Strip(evidence_summary.s)
                  IN  SalvageFrom(trimmed, Len(trimmed))

\* {c.get(key): c for c in lst if c.get(key)} (strict), or the same with
\* "isinstance(c, dict) and" before the test (not strict).  The result is a
\* list of Item(key value, c) in the order of the dict built: a key takes
\* the place of its first occurrence and the value of its last.  raised is
\* TRUE where the comprehension raises: lst is not iterable, an element has
\* no get(), or a key is unhashable.
ByKey(lst, key, strict) ==
    IF IsErr(lst) \/ lst.t # "list" THEN Raised
    ELSE Bind([i \in 1..Len(lst.kids) |-> DictGet(lst.kids[i].v, key, Null)],
              LAMBDA kv :
         Bind({i \in 1..Len(lst.kids) : ~IsErr(kv[i]) /\ Truthy(kv[i])},
              LAMBDA used :
             LET n == Len(lst.kids)
                 same(i, j) == PyEq(kv[i], kv[j])
                 first == {i \in used : ~\E j \in used : j < i /\ same(j, i)}
                 last(i) == CHOOSE j \in used :
                               /\ same(j, i)
                               /\ \A m \in used : same(m, i) => m <= j
             IN  IF (strict /\ \E i \in 1..n : IsErr(kv[i]))
                    \/ \E i \in used : kv[i].t \in {"list", "dict"}
                 THEN Raised
                 ELSE Bind(SelectSeq([i \in 1..n |-> i], LAMBDA i : i \in first),
                           LAMBDA order :
                          Ok([p \in 1..Len(order) |->
                                 Item(kv[order[p]],
                                      lst.kids[last(order[p])].v)]))))

\* by.get(key): the value stored for the key, None if there is none
Lookup(by, key) ==
    IF \E p \in 1..Len(by.list) : PyEq(by.list[p].k, key)
    THEN by.list[CHOOSE p \in 1..Len(by.list) : PyEq(by.list[p].k, key)].v
    ELSE Null

\* The loop over b_by_type of _diff_pod_phase_and_conditions and of the
\* node part of compute_diffs: one record per type of the newer list whose
\* condition differs from the older one's.
ConditionChanges(a_cond, b_cond, type, path_head, pod) ==
    Bind(<<ByKey(a_cond, <<"t", "y", "p", "e">>, TRUE), ByKey(b_cond, <<"t", "y", "p", "e">>, TRUE)>>,
         LAMBDA by :
        LET a_by_type == by[1]
            b_by_type == by[2]
            status(c) == PyStr(DictGet(c, <<"s", "t", "a", "t", "u", "s">>, Null))
            rec(p) ==
                Bind(<<PyStr(b_by_type.list[p].k), b_by_type.list[p].v,
                       Lookup(a_by_type, b_by_type.list[p].k)>>,
                     LAMBDA c :
                    LET ctype == c[1]
                        b_c == c[2]
                        a_c == c[3]
                    IN  IF PyEq(a_c, b_c) THEN <<>>
                        ELSE <<ChangeRecord(type,
                                  path_head \o <<"[">> \o ctype \o <<"]">>,
                                  a_c, b_c,
                                  IF pod
                                  THEN <<"C", "o", "n", "d", "i", "t", "i", "o", "n", " ">> \o ctype \o <<":", " ">>
                                       \o (IF Truthy(a_c) THEN status(a_c)
                                           ELSE <<"N", "/", "A">>)
                                       \o <<" ", "-", ">", " ">> \o status(b_c)
                                  ELSE <<"N", "o", "d", "e", " ", "c", "o", "n", "d", "i", "t", "i", "o", "n", " ">> \o ctype
                                       \o <<" ", "c", "h", "a", "n", "g", "e", "d">>)>>)
        IN  IF a_by_type.raised \/ b_by_type.raised THEN Raised
            ELSE Flatten([p \in 1..Len(b_by_type.list) |-> Ok(rec(p))],
                         Len(b_by_type.list)))

\* _diff_pod_phase_and_conditions(a_ev, b_ev, ""); compute_diffs passes no
\* other prefix
_diff_pod_phase_and_conditions(a_ev, b_ev) ==
    LET status_of(ev) ==
            IF ev.t # "dict" THEN Err
            ELSE DictGet(DictGet(ev, <<"p", "o", "d">>, EmptyDict), <<"s", "t", "a", "t", "u", "s">>, Null)
    IN  Bind(<<status_of(a_ev), status_of(b_ev)>>, LAMBDA st :
        LET a_pod == st[1]
            b_pod == st[2]
        IN  IF IsErr(a_pod) \/ IsErr(b_pod) THEN Raised
            ELSE IF ~Truthy(a_pod) /\ ~Truthy(b_pod) THEN Ok(<<>>)
            ELSE Bind(<<DictGet(PyOr(a_pod, EmptyDict), <<"p", "h", "a", "s", "e">>, Null),
                        DictGet(PyOr(b_pod, EmptyDict), <<"p", "h", "a", "s", "e">>, Null)>>,
                      LAMBDA ph :
                LET a_phase == ph[1]
                    b_phase == ph[2]
                    phase ==
                        IF PyEq(a_phase, b_phase) THEN <<>>
                        ELSE <<ChangeRecord("pod_phase", <<"p", "o", "d", ".", "s", "t", "a", "t", "u", "s", ".", "p", "h", "a", "s", "e">>,
                                  a_phase, b_phase,
                                  <<"P", "o", "d", " ", "p", "h", "a", "s", "e", " ", "c", "h", "a", "n", "g", "e", "d", " ", "f", "r", "o", "m", " ">> \o PyStr(a_phase)
                                  \o <<" ", "t", "o", " ">> \o PyStr(b_phase))>>
                    a_cond == PyOr(DictGet(PyOr(a_pod, EmptyDict),
                                           <<"c", "o", "n", "d", "i", "t", "i", "o", "n", "s">>, Null), List(<<>>))
                    b_cond == PyOr(DictGet(PyOr(b_pod, EmptyDict),
                                           <<"c", "o", "n", "d", "i", "t", "i", "o", "n", "s">>, Null), List(<<>>))
                IN  IF IsErr(a_phase) \/ IsErr(b_phase) THEN Raised
                    ELSE Then(Ok(phase),
                              ConditionChanges(a_cond, b_cond, "condition",
                                  <<"p", "o", "d", ".", "s", "t", "a", "t", "u", "s", ".", "c", "o", "n", "d", "i", "t", "i", "o", "n", "s">>, TRUE))))

\* _diff_container_statuses(a_ev, b_ev, "")
_diff_container_statuses(a_ev, b_ev) ==
    LET statuses(ev) ==
            PyOr(DictGet(DictGet(PyOr(DictGet(ev, <<"p", "o", "d">>, Null), EmptyDict),
                                 <<"s", "t", "a", "t", "u", "s">>, EmptyDict),
                         <<"c", "o", "n", "t", "a", "i", "n", "e", "r", "S", "t", "a", "t", "u", "s", "e", "s">>, Null),
                 List(<<>>))
        restartCount == <<"r", "e", "s", "t", "a", "r", "t", "C", "o", "u", "n", "t">>
        state == <<"s", "t", "a", "t", "e">>
        lastState == <<"l", "a", "s", "t", "S", "t", "a", "t", "e">>
        rec(a_by_name, b_by_name, p) ==
            Bind(<<PyStr(b_by_name.list[p].k), b_by_name.list[p].v,
                   Lookup(a_by_name, b_by_name.list[p].k)>>,
                 LAMBDA c :
            Bind(<<DictGet(c[3], restartCount, Null),
                   DictGet(c[2], restartCount, Null),
                   DictGet(c[3], state, Null), DictGet(c[2], state, Null),
                   DictGet(c[3], lastState, Null),
                   DictGet(c[2], lastState, Null)>>,
                 LAMBDA f :
                LET name == c[1]
                    b_s == c[2]
                    a_s == c[3]
                    base_path == <<"p", "o", "d", ".", "s", "t", "a", "t", "u", "s", ".", "c", "o", "n", "t", "a", "i", "n", "e", "r", "S", "t", "a", "t", "u", "s", "e", "s", "[">>
                                 \o name \o <<"]">>
                    container == <<"C", "o", "n", "t", "a", "i", "n", "e", "r", " ">> \o name
                IN  IF a_s.t = "null"
                    THEN <<ChangeRecord("container_added", base_path, Null, b_s,
                              container
                              \o <<" ", "a", "p", "p", "e", "a", "r", "e", "d", " ", "o", "r", " ", "w", "a", "s", " ", "n", "o", "t", " ", "p", "r", "e", "v", "i", "o", "u", "s", "l", "y", " ", "r", "e", "p", "o", "r", "t", "e", "d">>)>>
                    ELSE (IF PyEq(PyOr(f[1], Num(0)), PyOr(f[2], Num(0)))
                          THEN <<>>
                          ELSE <<ChangeRecord("restart_count",
                                    base_path \o <<".", "r", "e", "s", "t", "a", "r", "t", "C", "o", "u", "n", "t">>,
                                    f[1], f[2],
                                    container \o <<" ", "r", "e", "s", "t", "a", "r", "t", " ", "c", "o", "u", "n", "t", ":", " ">>
                                    \o PyStr(f[1]) \o <<" ", "-", ">", " ">> \o PyStr(f[2]))>>)
                      \o (IF PyEq(f[3], f[4]) THEN <<>>
                          ELSE <<ChangeRecord("container_state",
                                    base_path \o <<".", "s", "t", "a", "t", "e">>, f[3], f[4],
                                    container \o <<" ", "s", "t", "a", "t", "e", " ", "c", "h", "a", "n", "g", "e", "d">>)>>)
                      \o (IF PyEq(f[5], f[6]) THEN <<>>
                          ELSE <<ChangeRecord("last_state",
                                    base_path \o <<".", "l", "a", "s", "t", "S", "t", "a", "t", "e">>, f[5], f[6],
                                    container
                                    \o <<" ", "l", "a", "s", "t", " ", "t", "e", "r", "m", "i", "n", "a", "t", "i", "o", "n", "/", "r", "u", "n", "n", "i", "n", "g", " ", "s", "t", "a", "t", "e", " ", "c", "h", "a", "n", "g", "e", "d">>)>>)))
    IN  Bind(<<ByKey(statuses(a_ev), <<"n", "a", "m", "e">>, TRUE),
               ByKey(statuses(b_ev), <<"n", "a", "m", "e">>, TRUE)>>, LAMBDA by :
            IF by[1].raised \/ by[2].raised THEN Raised
            ELSE Flatten([p \in 1..Len(by[2].list) |-> Ok(rec(by[1], by[2], p))],
                         Len(by[2].list)))

\* The events of one key that _diff_events reports (diff_engine.py:134-146)
EventChanges(a_ev, b_ev, key) ==
    Bind(<<PyOr(DictGet(a_ev, key, Null), List(<<>>)),
           PyOr(DictGet(b_ev, key, Null), List(<<>>))>>, LAMBDA l :
        LET a_list == l[1]
            b_list == l[2]
            old == PyLen(l[1])
            reported(e) ==
                /\ e.t = "dict"
                /\ \/ PyEq(DictGet(e, <<"t", "y", "p", "e">>, Null), Str(<<"W", "a", "r", "n", "i", "n", "g">>))
                   \/ Truthy(DictGet(e, <<"r", "e", "a", "s", "o", "n">>, Null))
            rec(i) ==
                Bind(b_list.kids[i].v, LAMBDA e :
                    IF ~reported(e) THEN Ok(<<>>)
                    ELSE Bind(Prefix(DictGet(e, <<"m", "e", "s", "s", "a", "g", "e">>, Str(<<>>)),
                                     MessageKeep),
                              LAMBDA message :
                        IF IsErr(message) THEN Raised
                        ELSE Ok(<<ChangeRecord("event",
                                     key \o <<"[">> \o IntChars(i - 1) \o <<"]">>,
                                     Null, e,
                                     <<"N", "e", "w", " ", "e", "v", "e", "n", "t", ":", " ">>
                                     \o PyStr(DictGet(e, <<"r", "e", "a", "s", "o", "n">>, Str(<<>>)))
                                     \o <<" ", "-", " ">> \o PyStr(message))>>)))
        IN  IF IsErr(a_list) \/ IsErr(b_list) THEN Raised
            ELSE IF PyLen(a_list) < 0 \/ PyLen(b_list) < 0 THEN Raised
            ELSE IF PyLen(b_list) <= old THEN Ok(<<>>)
            ELSE IF b_list.t = "dict" THEN Raised
            ELSE IF b_list.t = "str" THEN Ok(<<>>)
            ELSE Flatten([j \in 1..(Len(b_list.kids) - old) |-> rec(old + j)],
                         Len(b_list.kids) - old))

\* _diff_events(a_ev, b_ev): the keys of the loop at diff_engine.py:133
_diff_events(a_ev, b_ev) ==
    LET keys == <<<<"p", "o", "d", "_", "e", "v", "e", "n", "t", "s">>, <<"w", "o", "r", "k", "l", "o", "a", "d", "_", "e", "v", "e", "n", "t", "s">>, <<"n", "o", "d", "e", "_", "e", "v", "e", "n", "t", "s">>>>
    IN  Flatten([k \in 1..3 |-> EventChanges(a_ev, b_ev, keys[k])], 3)

\* _diff_resources(a_ev, b_ev)
_diff_resources(a_ev, b_ev) ==
    LET containers(ev) ==
            DictGet(PyOr(DictGet(PyOr(DictGet(ev, <<"p", "o", "d">>, Null), EmptyDict),
                                 <<"s", "p", "e", "c">>, Null),
                         EmptyDict),
                    <<"c", "o", "n", "t", "a", "i", "n", "e", "r", "s">>, Null)
        resources(c) ==
            PyOr(DictGet(PyOr(c, EmptyDict), <<"r", "e", "s", "o", "u", "r", "c", "e", "s">>, Null), EmptyDict)
        rec(a_by_name, b_by_name, p) ==
            Bind(<<PyStr(b_by_name.list[p].k),
                   resources(Lookup(a_by_name, b_by_name.list[p].k)),
                   resources(b_by_name.list[p].v)>>, LAMBDA c :
                LET name == c[1]
                    a_res == c[2]
                    b_res == c[3]
                IN  IF PyEq(a_res, b_res) THEN Ok(<<>>)
                    ELSE IF IsErr(a_res) \/ IsErr(b_res) THEN Raised
                    ELSE Ok(<<ChangeRecord("resources",
                                 <<"p", "o", "d", ".", "s", "p", "e", "c", ".", "c", "o", "n", "t", "a", "i", "n", "e", "r", "s", "[">> \o name
                                 \o <<"]", ".", "r", "e", "s", "o", "u", "r", "c", "e", "s">>,
                                 a_res, b_res,
                                 <<"C", "o", "n", "t", "a", "i", "n", "e", "r", " ">> \o name
                                 \o <<" ", "r", "e", "s", "o", "u", "r", "c", "e", "s", " ", "(", "r", "e", "q", "u", "e", "s", "t", "s", "/", "l", "i", "m", "i", "t", "s", ")", " ", "c", "h", "a", "n", "g", "e", "d">>)>>))
    IN  Bind(<<containers(a_ev), containers(b_ev)>>, LAMBDA cs :
            IF IsErr(cs[1]) \/ IsErr(cs[2]) THEN Raised
            ELSE IF cs[1].t # "list" \/ cs[2].t # "list" THEN Ok(<<>>)
            ELSE Bind(<<ByKey(cs[1], <<"n", "a", "m", "e">>, FALSE),
                        ByKey(cs[2], <<"n", "a", "m", "e">>, FALSE)>>, LAMBDA by :
                IF by[1].raised \/ by[2].raised THEN Raised
                ELSE Flatten([p \in 1..Len(by[2].list) |-> rec(by[1], by[2], p)],
                             Len(by[2].list))))

\* _diff_analysis_json(a_json, b_json)
_diff_analysis_json(a_json, b_json) ==
    IF a_json.t # "dict" \/ b_json.t # "dict" THEN Raised
    ELSE Bind(<<PyOr(DictGet(a_json, <<"s", "u", "m", "m", "a", "r", "y">>, Null), Str(<<>>)),
                PyOr(DictGet(b_json, <<"s", "u", "m", "m", "a", "r", "y">>, Null), Str(<<>>)),
                PyOr(DictGet(a_json, <<"k", "u", "b", "e", "c", "t", "l", "_", "c", "o", "m", "m", "a", "n", "d", "s">>, Null), List(<<>>)),
                PyOr(DictGet(b_json, <<"k", "u", "b", "e", "c", "t", "l", "_", "c", "o", "m", "m", "a", "n", "d", "s">>, Null), List(<<>>))>>,
              LAMBDA v :
        LET a_sum == v[1]
            b_sum == v[2]
            a_cmds == v[3]
            b_cmds == v[4]
            summary ==
                IF PyEq(a_sum, b_sum) THEN Ok(<<>>)
                ELSE Bind(<<Prefix(a_sum, SummaryRecordKeep),
                            Prefix(b_sum, SummaryRecordKeep)>>, LAMBDA cut :
                    IF IsErr(cut[1]) \/ IsErr(cut[2]) THEN Raised
                    ELSE Ok(<<ChangeRecord("summary", <<"a", "n", "a", "l", "y", "s", "i", "s", "_", "j", "s", "o", "n", ".", "s", "u", "m", "m", "a", "r", "y">>,
                                 cut[1], cut[2], <<"S", "u", "m", "m", "a", "r", "y", " ", "c", "h", "a", "n", "g", "e", "d">>)>>))
            commands ==
                IF PyEq(a_cmds, b_cmds) THEN Ok(<<>>)
                ELSE Ok(<<ChangeRecord("kubectl_commands",
                             <<"a", "n", "a", "l", "y", "s", "i", "s", "_", "j", "s", "o", "n", ".", "k", "u", "b", "e", "c", "t", "l", "_", "c", "o", "m", "m", "a", "n", "d", "s">>,
                             a_cmds, b_cmds,
                             <<"S", "u", "g", "g", "e", "s", "t", "e", "d", " ", "k", "u", "b", "e", "c", "t", "l", " ", "c", "o", "m", "m", "a", "n", "d", "s", " ", "c", "h", "a", "n", "g", "e", "d">>)>>)
        IN  Then(summary, commands))

\* The loop over problematic_pods_evidence of compute_diffs
\* (diff_engine.py:221-229)
ProblematicChanges(a_ev, b_ev) ==
    LET key == <<"p", "r", "o", "b", "l", "e", "m", "a", "t", "i", "c", "_", "p", "o", "d", "s", "_", "e", "v", "i", "d", "e", "n", "c", "e">>
        item(l, i) == IF i <= Len(l.kids) THEN l.kids[i].v ELSE EmptyDict
        pod_of(p) == Dict(<<Item(<<"p", "o", "d">>, DictGet(p, <<"p", "o", "d">>, Null))>>)
        round(a_p, b_p) ==
            IF ~Truthy(a_p) /\ ~Truthy(b_p) THEN Ok(<<>>)
            ELSE IF a_p.t # "dict" \/ b_p.t # "dict" THEN Raised
            ELSE Bind(<<pod_of(a_p), pod_of(b_p)>>, LAMBDA pods :
                     Flatten(<<_diff_pod_phase_and_conditions(pods[1], pods[2]),
                               _diff_container_statuses(pods[1], pods[2])>>, 2))
    IN  Bind(<<PyOr(DictGet(a_ev, key, Null), List(<<>>)),
               PyOr(DictGet(b_ev, key, Null), List(<<>>))>>, LAMBDA l :
            LET a_problematic == l[1]
                b_problematic == l[2]
                n == Max(Len(l[1].kids), Len(l[2].kids))
            IN  IF IsErr(a_problematic) \/ IsErr(b_problematic) THEN Raised
                ELSE IF a_problematic.t # "list" \/ b_problematic.t # "list"
                THEN Raised
                ELSE Flatten([i \in 1..n |->
                                 Bind(<<item(a_problematic, i),
                                        item(b_problematic, i)>>,
                                      LAMBDA p : round(p[1], p[2]))], n))

\* The node part of compute_diffs (diff_engine.py:236-252)
NodeChanges(a_ev, b_ev) ==
    LET a_node == PyOr(DictGet(a_ev, <<"n", "o", "d", "e">>, Null), EmptyDict)
        b_node == PyOr(DictGet(b_ev, <<"n", "o", "d", "e">>, Null), EmptyDict)
        conditions == <<"c", "o", "n", "d", "i", "t", "i", "o", "n", "s">>
    IN  IF IsErr(a_node) \/ IsErr(b_node) THEN Raised
        ELSE IF ~Truthy(a_node) /\ ~Truthy(b_node) THEN Ok(<<>>)
        ELSE ConditionChanges(
                 PyOr(DictGet(a_node, conditions, Null), List(<<>>)),
                 PyOr(DictGet(b_node, conditions, Null), List(<<>>)),
                 "node_condition", <<"n", "o", "d", "e", ".", "c", "o", "n", "d", "i", "t", "i", "o", "n", "s">>, FALSE)

\* compute_diffs(analysis_a, analysis_b): the list it returns, or raised
compute_diffs(analysis_a_, analysis_b_) ==
    LET a_ev == _parse_evidence(DictGet(analysis_a_,
                    <<"e", "v", "i", "d", "e", "n", "c", "e", "_", "s", "u", "m", "m", "a", "r", "y">>, Null))
        b_ev == _parse_evidence(DictGet(analysis_b_,
                    <<"e", "v", "i", "d", "e", "n", "c", "e", "_", "s", "u", "m", "m", "a", "r", "y">>, Null))
        a_json == PyOr(DictGet(analysis_a_, <<"a", "n", "a", "l", "y", "s", "i", "s", "_", "j", "s", "o", "n">>,
                               Null), EmptyDict)
        b_json == PyOr(DictGet(analysis_b_, <<"a", "n", "a", "l", "y", "s", "i", "s", "_", "j", "s", "o", "n">>,
                               Null), EmptyDict)
    IN  Bind(<<a_ev, b_ev, a_json, b_json>>, LAMBDA in :
            Flatten(<<_diff_pod_phase_and_conditions(in[1], in[2]),
                      _diff_container_statuses(in[1], in[2]),
                      ProblematicChanges(in[1], in[2]),
                      _diff_events(in[1], in[2]),
                      _diff_resources(in[1], in[2]),
                      _diff_analysis_json(in[3], in[4]),
                      NodeChanges(in[1], in[2])>>, 7))

NoReport == Report(FALSE, <<>>, 0, 0)

IdleTrunc ==
    /\ max_chars = 0
    /\ truncated = EmptyDict
    /\ report = NoReport
    /\ retruncated = EmptyDict
    /\ rereport = NoReport

IdleDiff ==
    /\ analysis_a = EmptyDict
    /\ analysis_b = EmptyDict
    /\ changes = Ok(<<>>)

IdleRedact ==
    /\ evidence = EmptyDict
    /\ sanitized = EmptyDict
    /\ resanitized = EmptyDict

IdleHeur == heuristics = Ok(<<>>)

----------------------------------------------------------------------------
(* Signal extractor: extract_signals in app/intelligence/signals.py        *)

UpperChar(c) ==
    IF \E i \in 1..26 : LowerCase[i] = c
    THEN UpperCase[CHOOSE i \in 1..26 : LowerCase[i] = c]
    ELSE c

\* str.upper()
Upper(s) == [i \in 1..Len(s) |-> UpperChar(s[i])]

_IMAGE_PULL_REASONS == {<<"I", "m", "a", "g", "e", "P", "u", "l", "l", "B", "a", "c", "k", "O", "f", "f">>, <<"E", "r", "r", "I", "m", "a", "g", "e", "P", "u", "l", "l">>}

_FAILED_SCHEDULING_REASONS == {<<"F", "a", "i", "l", "e", "d", "S", "c", "h", "e", "d", "u", "l", "i", "n", "g">>}

\* The event keys and the workload keys the extractor walks, in its order.
EVENT_KEYS ==
    <<<<"p", "o", "d", "_", "e", "v", "e", "n", "t", "s">>, <<"d", "e", "p", "l", "o", "y", "m", "e", "n", "t", "_", "e", "v", "e", "n", "t", "s">>, <<"s", "t", "a", "t", "e", "f", "u", "l", "s", "e", "t", "_", "e", "v", "e", "n", "t", "s">>,
      <<"d", "a", "e", "m", "o", "n", "s", "e", "t", "_", "e", "v", "e", "n", "t", "s">>, <<"r", "e", "p", "l", "i", "c", "a", "s", "e", "t", "_", "e", "v", "e", "n", "t", "s">>, <<"j", "o", "b", "_", "e", "v", "e", "n", "t", "s">>,
      <<"n", "o", "d", "e", "_", "e", "v", "e", "n", "t", "s">>>>

WORKLOAD_KEYS ==
    <<<<"d", "e", "p", "l", "o", "y", "m", "e", "n", "t">>, <<"s", "t", "a", "t", "e", "f", "u", "l", "s", "e", "t">>, <<"d", "a", "e", "m", "o", "n", "s", "e", "t">>, <<"r", "e", "p", "l", "i", "c", "a", "s", "e", "t">>>>

\* (v or ""), on which a str method is then called: the characters, or Err
\* where v is true and no str (AttributeError)
TextOr(v) ==
    IF IsErr(v) THEN Err
    ELSE IF ~Truthy(v) THEN Str(<<>>)
    ELSE IF v.t = "str" THEN v ELSE Err

\* obj.get(k) or {}
SubTree(obj, k) == PyOr(DictGet(obj, k, Null), EmptyDict)

\* (cs.get(outer) or {}).get(inner) or {}).get("reason") or "").strip(),
\* as a Str, or Err where a step raises
ReasonUnder(cs, outer, inner) ==
    Bind(TextOr(DictGet(SubTree(SubTree(cs, outer), inner), <<"r", "e", "a", "s", "o", "n">>, Null)),
         LAMBDA r : IF IsErr(r) THEN Err ELSE Str(Strip(r.s)))

\* One round of the loop over container_statuses (signals.py:33-51): what
\* the round adds to restart_count and the flags it sets.
ContainerSignals(cs) ==
    IF cs.t # "dict" THEN [raised |-> TRUE]
    ELSE Bind(<<DictGet(cs, <<"r", "e", "s", "t", "a", "r", "t", "C", "o", "u", "n", "t">>, Null),
                ReasonUnder(cs, <<"s", "t", "a", "t", "e">>, <<"w", "a", "i", "t", "i", "n", "g">>),
                ReasonUnder(cs, <<"l", "a", "s", "t", "S", "t", "a", "t", "e">>, <<"t", "e", "r", "m", "i", "n", "a", "t", "e", "d">>)>>, LAMBDA c :
        IF IsErr(c[2]) \/ IsErr(c[3]) THEN [raised |-> TRUE]
        ELSE [raised |-> FALSE,
              count |-> IF c[1].t \in {"int", "bool"} /\ c[1].n >= 0
                        THEN c[1].n ELSE 0,
              crash_loop |-> c[2].s = <<"C", "r", "a", "s", "h", "L", "o", "o", "p", "B", "a", "c", "k", "O", "f", "f">>,
              image_pull |-> c[2].s \in _IMAGE_PULL_REASONS,
              oom_killed |-> c[3].s = <<"O", "O", "M", "K", "i", "l", "l", "e", "d">>])

\* The elements a for loop over v visits: those of a list, the characters
\* of a str, the keys of a dict; Err where v cannot be iterated.
Iterated(v) ==
    CASE IsErr(v) -> Err
      [] v.t = "list" -> v
      [] v.t = "str" -> List([i \in 1..Len(v.s) |-> Str(<<v.s[i]>>)])
      [] v.t = "dict" -> List([i \in 1..Len(v.kids) |-> Str(v.kids[i].k)])
      [] OTHER -> Err

\* The loop over container_statuses (signals.py:29-51).
PodSignals(evidence_) ==
    Bind(Iterated(PyOr(DictGet(SubTree(SubTree(evidence_, <<"p", "o", "d">>), <<"s", "t", "a", "t", "u", "s">>),
                               <<"c", "o", "n", "t", "a", "i", "n", "e", "r", "S", "t", "a", "t", "u", "s", "e", "s">>, Null), List(<<>>))),
         LAMBDA statuses :
        IF IsErr(statuses) THEN [raised |-> TRUE]
        ELSE Bind([i \in 1..Len(statuses.kids) |->
                      ContainerSignals(statuses.kids[i].v)], LAMBDA per :
            LET n == Len(statuses.kids)
            IN  IF \E i \in 1..n : per[i].raised THEN [raised |-> TRUE]
                ELSE [raised |-> FALSE,
                      restart_count |-> SumTo([i \in 1..n |-> per[i].count], n),
                      crash_loop |-> \E i \in 1..n : per[i].crash_loop,
                      image_pull |-> \E i \in 1..n : per[i].image_pull,
                      oom_killed |-> \E i \in 1..n : per[i].oom_killed]))

\* One round of the inner loop over the events of a key (signals.py:59-65).
EventSignals(ev) ==
    IF ev.t # "dict" THEN [raised |-> FALSE, warning |-> 0, unschedulable |-> FALSE]
    ELSE Bind(<<TextOr(DictGet(ev, <<"t", "y", "p", "e">>, Null)),
                TextOr(DictGet(ev, <<"r", "e", "a", "s", "o", "n">>, Null))>>, LAMBDA e :
        IF IsErr(e[1]) \/ IsErr(e[2]) THEN [raised |-> TRUE]
        ELSE [raised |-> FALSE,
              warning |-> IF Upper(e[1].s) = <<"W", "A", "R", "N", "I", "N", "G">> THEN 1 ELSE 0,
              unschedulable |-> Strip(e[2].s) \in _FAILED_SCHEDULING_REASONS])

\* The events of one key (signals.py:58-65).
EventListSignals(evidence_, key) ==
    Bind(Iterated(PyOr(DictGet(evidence_, key, Null), List(<<>>))), LAMBDA evs :
        IF IsErr(evs) THEN [raised |-> TRUE]
        ELSE Bind([i \in 1..Len(evs.kids) |-> EventSignals(evs.kids[i].v)],
                  LAMBDA per :
            LET n == Len(evs.kids)
            IN  IF \E i \in 1..n : per[i].raised THEN [raised |-> TRUE]
                ELSE [raised |-> FALSE,
                      warning |-> SumTo([i \in 1..n |-> per[i].warning], n),
                      unschedulable |-> \E i \in 1..n : per[i].unschedulable]))

\* Mutant: a workload without readyReplicas counts as fully ready.
WorkloadSignals_missing_is_ready(evidence_, key) ==
    Bind(SubTree(evidence_, key), LAMBDA workload :
        IF IsErr(workload) THEN [raised |-> TRUE]
        ELSE IF ~Truthy(workload) THEN [raised |-> FALSE, mismatch |-> FALSE]
        ELSE Bind(<<DictGet(SubTree(workload, <<"s", "p", "e", "c">>), <<"r", "e", "p", "l", "i", "c", "a", "s">>, Null),
                    PyOr(DictGet(workload, <<"s", "t", "a", "t", "u", "s">>, Null), EmptyDict)>>,
                  LAMBDA w :
            LET desired == w[1]
                ready == PyOr(DictGet(w[2], <<"r", "e", "a", "d", "y", "R", "e", "p", "l", "i", "c", "a", "s">>, Null), desired)
            IN  IF IsErr(desired) THEN [raised |-> TRUE]
                ELSE IF desired.t = "null"
                THEN [raised |-> FALSE, mismatch |-> FALSE]
                ELSE IF IsErr(ready) \/ desired.t \notin {"int", "bool"}
                THEN [raised |-> TRUE]
                ELSE IF desired.n <= 0
                THEN [raised |-> FALSE, mismatch |-> FALSE]
                ELSE IF ready.t \notin {"int", "bool"} THEN [raised |-> TRUE]
                ELSE [raised |-> FALSE, mismatch |-> ready.n < desired.n]))

\* One round of the loop over the workload keys (signals.py:69-79).
WorkloadSignals(evidence_, key) ==
    Bind(SubTree(evidence_, key), LAMBDA workload :
        IF IsErr(workload) THEN [raised |-> TRUE]
        ELSE IF ~Truthy(workload) THEN [raised |-> FALSE, mismatch |-> FALSE]
        ELSE Bind(<<DictGet(SubTree(workload, <<"s", "p", "e", "c">>), <<"r", "e", "p", "l", "i", "c", "a", "s">>, Null),
                    PyOr(DictGet(workload, <<"s", "t", "a", "t", "u", "s">>, Null), EmptyDict)>>,
                  LAMBDA w :
            LET desired == w[1]
                ready == PyOr(DictGet(w[2], <<"r", "e", "a", "d", "y", "R", "e", "p", "l", "i", "c", "a", "s">>, Null), Num(0))
            IN  IF IsErr(desired) THEN [raised |-> TRUE]
                ELSE IF desired.t = "null"
                THEN [raised |-> FALSE, mismatch |-> FALSE]
                ELSE IF IsErr(ready) \/ desired.t \notin {"int", "bool"}
                THEN [raised |-> TRUE]
                ELSE IF desired.n <= 0
                THEN [raised |-> FALSE, mismatch |-> FALSE]
                ELSE IF ready.t \notin {"int", "bool"} THEN [raised |-> TRUE]
                ELSE [raised |-> FALSE, mismatch |-> ready.n < desired.n]))

\* The loop over the node's conditions (signals.py:82-87).
NodeSignals(evidence_) ==
    Bind(Iterated(PyOr(DictGet(SubTree(SubTree(evidence_, <<"n", "o", "d", "e">>), <<"s", "t", "a", "t", "u", "s">>),
                               <<"c", "o", "n", "d", "i", "t", "i", "o", "n", "s">>, Null), List(<<>>))),
         LAMBDA conditions :
        IF IsErr(conditions) THEN [raised |-> TRUE]
        ELSE [raised |-> FALSE,
              not_ready |->
                  \E i \in 1..Len(conditions.kids) :
                      LET condition == conditions.kids[i].v
                      IN  /\ condition.t = "dict"
                          /\ PyEq(DictGet(condition, <<"t", "y", "p", "e">>, Null),
                                  Str(<<"R", "e", "a", "d", "y">>))
                          /\ ~PyEq(DictGet(condition, <<"s", "t", "a", "t", "u", "s">>, Null),
                                   Str(<<"T", "r", "u", "e">>))])

\* extract_signals(evidence): the signal vector, or raised where the call
\* ends in an AttributeError or TypeError
extract_signals(evidence_) ==
    Bind(<<PodSignals(evidence_),
           [k \in 1..Len(EVENT_KEYS) |-> EventListSignals(evidence_, EVENT_KEYS[k])],
           [k \in 1..Len(WORKLOAD_KEYS) |->
               WorkloadSignals(evidence_, WORKLOAD_KEYS[k])],
           NodeSignals(evidence_)>>, LAMBDA part :
        LET pod == part[1]
            events == part[2]
            workloads == part[3]
            node == part[4]
        IN  IF \/ pod.raised
               \/ \E k \in 1..Len(EVENT_KEYS) : events[k].raised
               \/ \E k \in 1..Len(WORKLOAD_KEYS) : workloads[k].raised
               \/ node.raised
            THEN [raised |-> TRUE, signals |-> <<>>]
            ELSE [raised |-> FALSE,
                  signals |->
                      [crash_loop_back_off |-> pod.crash_loop,
                       image_pull_back_off |-> pod.image_pull,
                       oom_killed |-> pod.oom_killed,
                       unschedulable |->
                           \E k \in 1..Len(EVENT_KEYS) : events[k].unschedulable,
                       restart_count |-> pod.restart_count,
                       node_not_ready |-> node.not_ready,
                       replica_mismatch |->
                           \E k \in 1..Len(WORKLOAD_KEYS) : workloads[k].mismatch,
                       warning_event_count |->
                           SumTo([k \in 1..Len(EVENT_KEYS) |-> events[k].warning],
                                 Len(EVENT_KEYS))]])

----------------------------------------------------------------------------
(* Intelligence pipeline: app/intelligence/classifier.py, scoring.py       *)
(*                                                                         *)
(* Confidences are Python floats with at most two decimals; they are kept  *)
(* here as integers counting millionths (0.95 is 950000), so that the      *)
(* final round(x, 4) is an operation with an effect of its own.  The float *)
(* error of the sums (about 1e-16) is far below the rounding step and no   *)
(* sum of these terms lies on a rounding boundary.                         *)

\* Largest restart_count / warning_event_count drawn for a signal vector.
MaxCount == 6

One == 1000000

SignalVectors ==
    [crash_loop_back_off : BOOLEAN, image_pull_back_off : BOOLEAN,
     oom_killed : BOOLEAN, unschedulable : BOOLEAN,
     restart_count : 0..MaxCount, node_not_ready : BOOLEAN,
     replica_mismatch : BOOLEAN, warning_event_count : 0..MaxCount]

Finding(rc, conf, sig, desc) ==
    [root_cause |-> rc, confidence |-> conf, signals_triggered |-> <<sig>>,
     description |-> desc]

ResourceExhaustion ==
    Finding("resource_exhaustion", 950000, "oom_killed",
            "Container was killed due to exceeding memory limit (OOMKilled).")

ImageError ==
    Finding("image_error", 990000, "image_pull_back_off",
            "Image pull failed. Check image name, tag, and registry credentials.")

AppRuntimeError ==
    Finding("app_runtime_error", 800000, "crash_loop_back_off",
            "Application is crashing repeatedly. Check logs for error details.")

SchedulingIssue ==
    Finding("scheduling_issue", 900000, "unschedulable",
            "Pod cannot be scheduled. Check node resources, selectors, and taints.")

RolloutIssue ==
    Finding("rollout_issue", 850000, "replica_mismatch",
            "Ready replicas are less than desired. Rollout may be stalled.")

NodeFailure ==
    Finding("node_failure", 900000, "node_not_ready",
            "Node is reporting NotReady status. Check kubelet and system resources.")

RuleFindings ==
    {ResourceExhaustion, ImageError, AppRuntimeError, SchedulingIssue,
     RolloutIssue, NodeFailure}

When(cond, f) == IF cond THEN <<f>> ELSE <<>>

\* Mutant: the crash-loop rule without its OOM suppression.
classify_signals_no_suppression(s) ==
       When(s.oom_killed, ResourceExhaustion)
    \o When(s.image_pull_back_off, ImageError)
    \o When(s.crash_loop_back_off, AppRuntimeError)
    \o When(s.unschedulable, SchedulingIssue)
    \o When(s.replica_mismatch, RolloutIssue)
    \o When(s.node_not_ready, NodeFailure)

\* Mutant: the crash-loop rule tests only the absence of OOM.
classify_signals_not_oom_only(s) ==
       When(s.oom_killed, ResourceExhaustion)
    \o When(s.image_pull_back_off, ImageError)
    \o When(~s.oom_killed, AppRuntimeError)
    \o When(s.unschedulable, SchedulingIssue)
    \o When(s.replica_mismatch, RolloutIssue)
    \o When(s.node_not_ready, NodeFailure)

\* Mutant: the crash-loop rule reports the OOM finding when oom_killed is set.
classify_signals_oom_twice(s) ==
       When(s.oom_killed, ResourceExhaustion)
    \o When(s.image_pull_back_off, ImageError)
    \o When(s.crash_loop_back_off,
            IF s.oom_killed THEN ResourceExhaustion ELSE AppRuntimeError)
    \o When(s.unschedulable, SchedulingIssue)
    \o When(s.replica_mismatch, RolloutIssue)
    \o When(s.node_not_ready, NodeFailure)

\* Mutant: the image rule is evaluated after the crash-loop rule.
classify_signals_image_third(s) ==
       When(s.oom_killed, ResourceExhaustion)
    \o When(s.crash_loop_back_off /\ ~s.oom_killed, AppRuntimeError)
    \o When(s.image_pull_back_off, ImageError)
    \o When(s.unschedulable, SchedulingIssue)
    \o When(s.replica_mismatch, RolloutIssue)
    \o When(s.node_not_ready, NodeFailure)

classify_signals(s) ==
       When(s.oom_killed, ResourceExhaustion)
    \o When(s.image_pull_back_off, ImageError)
    \o When(s.crash_loop_back_off /\ ~s.oom_killed, AppRuntimeError)
    \o When(s.unschedulable, SchedulingIssue)
    \o When(s.replica_mismatch, RolloutIssue)
    \o When(s.node_not_ready, NodeFailure)

\* Python's round(x, 4) on a value counted in millionths: to the nearest
\* multiple of 100, ties to the even one.
Round4(x) ==
    LET q == x \div 100
        r == x % 100
    IN  IF r > 50 \/ (r = 50 /\ q % 2 = 1) THEN (q + 1) * 100 ELSE q * 100

RECURSIVE MaxConfidence(_)
MaxConfidence(f) ==
    IF Len(f) = 1 THEN f[1].confidence
    ELSE Max(f[1].confidence, MaxConfidence(Tail(f)))

\* Mutant: the sum is not capped at 1.0.
compute_confidence_uncapped(s, f) ==
    IF f = <<>> THEN 0
    ELSE Round4(MaxConfidence(f)
                + Min(s.restart_count * 10000, 50000)
                + Min(s.warning_event_count * 10000, 50000)
                + Min((Len(f) - 1) * 20000, 50000))

\* Mutant: the base is the confidence of the first finding.
compute_confidence_first_finding(s, f) ==
    IF f = <<>> THEN 0
    ELSE Round4(Min(f[1].confidence
                    + Min(s.restart_count * 10000, 50000)
                    + Min(s.warning_event_count * 10000, 50000)
                    + Min((Len(f) - 1) * 20000, 50000), One))

compute_confidence(s, f) ==
    IF f = <<>> THEN 0
    ELSE LET base == MaxConfidence(f)
             restart_bonus == Min(s.restart_count * 10000, 50000)
             warning_bonus == Min(s.warning_event_count * 10000, 50000)
             multi_bonus == Min((Len(f) - 1) * 20000, 50000)
         IN  Round4(Min(base + restart_bonus + warning_bonus + multi_bonus, One))

InitIntel ==
    /\ pc = "signals"
    /\ signals \in SignalVectors
    /\ findings = <<>>
    /\ engine_confidence = -1
    /\ IdleRedact
    /\ IdleTrunc
    /\ IdleDiff
    /\ IdleHeur

\* analyze_with_engine: findings = classify_signals(signals)
Classify ==
    /\ pc = "signals"
    /\ findings' = classify_signals(signals)
    /\ pc' = "classified"
    /\ UNCHANGED <<signals, engine_confidence, varsRedact, varsTrunc, varsDiff, varsHeur>>

\* analyze_with_engine: engine_confidence = compute_confidence(signals, findings)
Score ==
    /\ pc = "classified"
    /\ engine_confidence' = compute_confidence(signals, findings)
    /\ pc' = "scored"
    /\ UNCHANGED <<signals, findings, varsRedact, varsTrunc, varsDiff, varsHeur>>

\* compute_confidence called again with one more restart
RescoreRestart ==
    /\ pc = "scored"
    /\ signals.restart_count <= MaxCount
    /\ signals' = [signals EXCEPT !.restart_count = @ + 1]
    /\ engine_confidence' = compute_confidence(signals', findings)
    /\ pc' = "rescored"
    /\ UNCHANGED <<findings, varsRedact, varsTrunc, varsDiff, varsHeur>>

\* compute_confidence called again with one more warning event
RescoreWarning ==
    /\ pc = "scored"
    /\ signals.warning_event_count <= MaxCount
    /\ signals' = [signals EXCEPT !.warning_event_count = @ + 1]
    /\ engine_confidence' = compute_confidence(signals', findings)
    /\ pc' = "rescored"
    /\ UNCHANGED <<findings, varsRedact, varsTrunc, varsDiff, varsHeur>>

\* compute_confidence called again with one more finding appended
RescoreFinding ==
    /\ pc = "scored"
    /\ \E f \in RuleFindings :
          /\ findings' = Append(findings, f)
          /\ engine_confidence' = compute_confidence(signals, findings')
    /\ pc' = "rescored"
    /\ UNCHANGED <<signals, varsRedact, varsTrunc, varsDiff, varsHeur>>

NextIntel ==
    \/ Classify
    \/ Score
    \/ RescoreRestart
    \/ RescoreWarning
    \/ RescoreFinding

SpecIntel == InitIntel /\ [][NextIntel]_vars

----------------------------------------------------------------------------
(* Claims about the intelligence pipeline                                  *)

CountCause(f, rc) == Cardinality({i \in 1..Len(f) : f[i].root_cause = rc})

AllQuiet(s) ==
    /\ ~s.crash_loop_back_off /\ ~s.image_pull_back_off /\ ~s.oom_killed
    /\ ~s.unschedulable /\ ~s.node_not_ready /\ ~s.replica_mismatch
    /\ s.restart_count = 0 /\ s.warning_event_count = 0

\* C1: whenever oom_killed is true, the list classify_signals returns holds
\* exactly one finding with root_cause resource_exhaustion, its confidence is
\* 0.95, and if crash_loop_back_off is true as well the list holds no finding
\* with root_cause app_runtime_error.
C1_OomYieldsResourceExhaustion ==
    (pc \in {"classified", "scored"} /\ signals.oom_killed) =>
        /\ CountCause(findings, "resource_exhaustion") = 1
        /\ \A i \in 1..Len(findings) :
              findings[i].root_cause = "resource_exhaustion"
                  => findings[i].confidence = 950000
        /\ signals.crash_loop_back_off
              => CountCause(findings, "app_runtime_error") = 0

C1_Witness ==
    /\ pc = "classified"
    /\ signals.oom_killed /\ signals.crash_loop_back_off
    /\ Len(findings) >= 1

\* C9: every score compute_confidence returns lies in [0, 1] and is a multiple
\* of 0.0001, and a second call with one more restart, one more warning event
\* or one more finding appended never returns less than the first call.
C9_ScoreBoundedAndMonotone ==
    /\ [](pc \in {"scored", "rescored"} =>
             /\ engine_confidence >= 0
             /\ engine_confidence <= One
             /\ engine_confidence % 100 = 0)
    /\ [][(pc = "scored" /\ pc' = "rescored")
             => engine_confidence' >= engine_confidence]_vars

C9_Witness ==
    /\ pc = "rescored"
    /\ Len(findings) >= 2
    /\ signals.restart_count >= 1
    /\ engine_confidence = One

\* C10: for the signal vector with every boolean false and every counter zero
\* classify_signals returns the empty list and compute_confidence returns 0.0.
C10_QuietVectorScoresZero ==
    (pc \in {"classified", "scored"} /\ AllQuiet(signals)) =>
        /\ findings = <<>>
        /\ pc = "scored" => engine_confidence = 0

C10_Witness ==
    /\ pc = "scored"
    /\ AllQuiet(signals)
    /\ engine_confidence = 0

\* C16: classify_signals returns no two findings with the same root_cause,
\* and at most one of resource_exhaustion and app_runtime_error.
C16_OneFindingPerRootCause ==
    pc \in {"classified", "scored"} =>
        /\ \A i, j \in 1..Len(findings) :
              findings[i].root_cause = findings[j].root_cause => i = j
        /\ CountCause(findings, "resource_exhaustion")
               + CountCause(findings, "app_runtime_error") <= 1

C16_Witness ==
    /\ pc = "classified"
    /\ signals.crash_loop_back_off /\ signals.oom_killed
    /\ signals.image_pull_back_off /\ signals.node_not_ready
    /\ Len(findings) = 3

\* The rules in their order: root cause, base confidence, the signal that
\* fires the rule.
RuleOrder ==
    <<<<"resource_exhaustion", 950000, "oom_killed">>,
      <<"image_error", 990000, "image_pull_back_off">>,
      <<"app_runtime_error", 800000, "crash_loop_back_off">>,
      <<"scheduling_issue", 900000, "unschedulable">>,
      <<"rollout_issue", 850000, "replica_mismatch">>,
      <<"node_failure", 900000, "node_not_ready">>>>

\* the place in RuleOrder of the rule with root cause rc, 0 when there is none
RuleRank(rc) ==
    IF \E r \in 1..Len(RuleOrder) : RuleOrder[r][1] = rc
    THEN CHOOSE r \in 1..Len(RuleOrder) : RuleOrder[r][1] = rc
    ELSE 0

\* C17: the findings classify_signals returns are in the fixed rule order
\* (resource_exhaustion, image_error, app_runtime_error, scheduling_issue,
\* rollout_issue, node_failure); a rule whose signal is set (the crash-loop
\* rule: and oom_killed is not) contributes exactly one finding, whose
\* signals_triggered is that signal and whose confidence is the rule's base
\* value, and a rule whose signal is not set contributes none.
C17_FindingsInRuleOrder ==
    pc \in {"classified", "scored"} =>
        /\ \A i \in 1..Len(findings) :
              LET r == RuleRank(findings[i].root_cause)
              IN  /\ r # 0
                  /\ findings[i].confidence = RuleOrder[r][2]
                  /\ findings[i].signals_triggered = <<RuleOrder[r][3]>>
                  /\ signals[RuleOrder[r][3]]
        /\ \A i \in 1..(Len(findings) - 1) :
              RuleRank(findings[i].root_cause) < RuleRank(findings[i + 1].root_cause)
        /\ \A r \in 1..Len(RuleOrder) :
              CountCause(findings, RuleOrder[r][1])
                  = IF signals[RuleOrder[r][3]]
                       /\ ~(r = 3 /\ signals.oom_killed)
                    THEN 1 ELSE 0

C17_Witness ==
    /\ pc = "classified"
    /\ Len(findings) = 5
    /\ findings[1].root_cause = "image_error"
    /\ findings[2].root_cause = "app_runtime_error"
    /\ findings[5].root_cause = "node_failure"

\* C18: compute_confidence returns 0.0 when findings is empty, whatever the
\* signals; otherwise round(min(base + restart_bonus + warning_bonus +
\* multi_bonus, 1.0), 4) with base the largest confidence among the
\* findings, restart_bonus = min(restart_count * 0.01, 0.05), warning_bonus
\* = min(warning_event_count * 0.01, 0.05) and multi_bonus =
\* min((number of findings - 1) * 0.02, 0.05); a single resource_exhaustion
\* finding with restart_count 3 and no warnings scores 0.98.
C18_ConfidenceFormula ==
    pc \in {"scored", "rescored"} =>
        IF Len(findings) = 0 THEN engine_confidence = 0
        ELSE LET base == CHOOSE c \in {findings[i].confidence : i \in 1..Len(findings)} :
                             \A i \in 1..Len(findings) : findings[i].confidence <= c
                 restart_bonus == IF signals.restart_count < 5
                                  THEN signals.restart_count * 10000 ELSE 50000
                 warning_bonus == IF signals.warning_event_count < 5
                                  THEN signals.warning_event_count * 10000 ELSE 50000
                 multi_bonus == IF (Len(findings) - 1) * 20000 < 50000
                                THEN (Len(findings) - 1) * 20000 ELSE 50000
                 sum == base + restart_bonus + warning_bonus + multi_bonus
                 capped == IF sum < One THEN sum ELSE One
             IN  /\ engine_confidence % 100 = 0
                 /\ 2 * (engine_confidence - capped) \in -100..100
                 /\ (findings = <<ResourceExhaustion>> /\ signals.restart_count = 3
                        /\ signals.warning_event_count = 0)
                       => engine_confidence = 980000

C18_Witness ==
    /\ pc = "scored"
    /\ findings = <<ResourceExhaustion>>
    /\ signals.restart_count = 3 /\ signals.warning_event_count = 0
    /\ engine_confidence = 980000

----------------------------------------------------------------------------
\* Depth of nesting below the top-level mapping in the trees drawn.
RedactDepth == 2

RedactSampleKeys ==
    {<<"n", "a", "m", "e">>, <<"e", "n", "v">>,
     <<"p", "a", "s", "s", "w", "o", "r", "d">>,
     <<"A", "P", "I", "_", "K", "E", "Y">>,
     <<"C", "l", "i", "e", "n", "t", "-", "S", "e", "c", "r", "e", "t">>}

RedactSampleStrings ==
    {<<"n", "g", "i", "n", "x">>,
     <<"B", "e", "a", "r", "e", "r", " ", "a", "b", "c", "1", "2", "3">>,
     <<"r", "o", "t", "a", "t", "e", " ", "T", "O", "K", "E", "N", "S">>,
     <<"P", "A", "S", "S", "W", "O", "R", "D", "=", "x">>,
     <<"K", "e", "y", "_", "A", "1", "=", "v">>,
     <<" ", "a", "u", "t", "h", "=", "1", " ">>,
     <<"K", "E", "Y", "S", "=", "1">>,
     <<"D", "B", "_", "S", "E", "C", "R", "E", "T", "=", "1">>,
     Rep("Q", 50), Rep("Q", 50) \o <<"=", "=">>, Rep("Q", 45),
     Rep("Q", 48) \o <<"=", "=">>,
     REDACTED, REDACTED_BASE64, REDACTED_ENV}

RedactLeaves ==
    {Str(s) : s \in RedactSampleStrings} \cup {Num(3), Bool(TRUE), Null}

RECURSIVE RedactValues(_)
RedactValues(depth) ==
    IF depth = 0 THEN RedactLeaves
    ELSE LET below == RedactValues(depth - 1)
         IN  RedactLeaves
             \cup {Dict(<<Item(k, v)>>) : k \in RedactSampleKeys, v \in below}
             \cup {List(<<v>>) : v \in below}

\* The keys drawn for the top level of the evidence tree.
RedactTopKeys ==
    RedactSampleKeys
    \cup {<<"A", "U", "T", "H", "O", "R", "I", "Z", "A", "T", "I", "O", "N", "_", "T", "O", "K", "E", "N">>}

RedactInputs ==
    {Dict(<<Item(k, v)>>) :
        k \in RedactTopKeys, v \in RedactValues(RedactDepth)}

QuietSignals ==
    [crash_loop_back_off |-> FALSE, image_pull_back_off |-> FALSE,
     oom_killed |-> FALSE, unschedulable |-> FALSE, restart_count |-> 0,
     node_not_ready |-> FALSE, replica_mismatch |-> FALSE,
     warning_event_count |-> 0]

IdleIntel ==
    /\ signals = QuietSignals
    /\ findings = <<>>
    /\ engine_confidence = -1

InitRedact ==
    /\ pc = "raw"
    /\ evidence \in RedactInputs
    /\ sanitized = EmptyDict
    /\ resanitized = EmptyDict
    /\ IdleIntel
    /\ IdleTrunc
    /\ IdleDiff
    /\ IdleHeur

\* sanitized = sanitize_evidence(evidence)
Sanitize ==
    /\ pc = "raw"
    /\ sanitized' = sanitize_evidence(evidence)
    /\ pc' = "sanitized"
    /\ UNCHANGED <<evidence, resanitized, varsIntel, varsTrunc, varsDiff, varsHeur>>

\* sanitize_evidence applied to its own result
SanitizeAgain ==
    /\ pc = "sanitized"
    /\ resanitized' = sanitize_evidence(sanitized)
    /\ pc' = "resanitized"
    /\ UNCHANGED <<evidence, sanitized, varsIntel, varsTrunc, varsDiff, varsHeur>>

NextRedact ==
    \/ Sanitize
    \/ SanitizeAgain

SpecRedact == InitRedact /\ [][NextRedact]_vars

----------------------------------------------------------------------------
(* Claims about the redactor                                               *)

\* every mapping key of the tree, at any depth, that IsRedactKey holds the
\* literal "[REDACTED]"
RECURSIVE SensitiveKeysRedacted(_)
SensitiveKeysRedacted(val) ==
    \A i \in 1..Len(val.kids) :
        IF val.t = "dict" /\ IsRedactKey(val.kids[i].k)
        THEN val.kids[i].v = Str(REDACTED)
        ELSE SensitiveKeysRedacted(val.kids[i].v)

\* a mapping key that IsRedactKey occurs below the top level of the tree
RECURSIVE HasSensitiveKey(_)
HasSensitiveKey(val) ==
    \E i \in 1..Len(val.kids) :
        \/ val.t = "dict" /\ IsRedactKey(val.kids[i].k)
        \/ HasSensitiveKey(val.kids[i].v)

\* C2: in the tree sanitize_evidence returns, every mapping key at any depth
\* whose normalized form contains a sensitive substring holds "[REDACTED]".
C2_SensitiveKeysRedactedAtAnyDepth ==
    pc = "sanitized" => SensitiveKeysRedacted(sanitized)

\* C3: sanitizing the sanitized tree again returns a structurally equal tree.
C3_RedactionIdempotent ==
    pc = "resanitized" => resanitized = sanitized

C3_Witness ==
    /\ pc = "resanitized"
    /\ sanitized # evidence
    /\ \E i \in 1..Len(sanitized.kids) :
          /\ sanitized.kids[i].v.t = "dict"
          /\ \E j \in 1..Len(sanitized.kids[i].v.kids) :
                sanitized.kids[i].v.kids[j].v = Str(REDACTED_ENV)

\* In the sanitized tree, every number, boolean and null of the given tree
\* that sits under keys that are not redacted by name is as it was given.
RECURSIVE ScalarsKept(_, _)
ScalarsKept(given, out) ==
    CASE given.t \in {"int", "bool", "null"} -> out = given
      [] given.t = "str" -> TRUE
      [] OTHER ->
            /\ out.t = given.t
            /\ Len(out.kids) = Len(given.kids)
            /\ \A i \in 1..Len(given.kids) :
                  \/ given.t = "dict" /\ IsRedactKey(given.kids[i].k)
                  \/ ScalarsKept(given.kids[i].v, out.kids[i].v)

\* C14: a key that sanitize_evidence redacts by name holds exactly the
\* literal "[REDACTED]" in the output, whatever the type or content of its
\* value was (string, number, mapping or list); a number, boolean or null
\* under keys that are not sensitive is in the output as it was given.
C14_KeyRedactionTakesPrecedence ==
    pc \in {"sanitized", "resanitized"}
        => /\ Len(sanitized.kids) = Len(evidence.kids)
           /\ \A i \in 1..Len(evidence.kids) :
                 IsRedactKey(evidence.kids[i].k)
                     => sanitized.kids[i] = Item(evidence.kids[i].k, Str(REDACTED))
           /\ ScalarsKept(evidence, sanitized)

C14_Witness ==
    /\ pc = "sanitized"
    /\ evidence.kids[1].k = <<"A", "U", "T", "H", "O", "R", "I", "Z", "A", "T", "I", "O", "N", "_", "T", "O", "K", "E", "N">>
    /\ evidence.kids[1].v.t = "dict"
    /\ sanitized.kids[1].v = Str(REDACTED)

\* Every string of the given tree under keys that are not sensitive that is
\* longer than Base64MinLen and made of base64-alphabet characters from end
\* to end is another string in the sanitized tree.
RECURSIVE LongBase64Redacted(_, _)
LongBase64Redacted(given, out) ==
    CASE given.t = "str" ->
            (Len(given.s) > Base64MinLen
             /\ \A i \in 1..Len(given.s) : IsBase64Char(given.s[i]))
                => out # given
      [] given.t \in {"dict", "list"} ->
            \A i \in 1..Len(given.kids) :
                \/ given.t = "dict" /\ IsRedactKey(given.kids[i].k)
                \/ LongBase64Redacted(given.kids[i].v, out.kids[i].v)
      [] OTHER -> TRUE

\* C15: every string value under a non-sensitive key that is longer than 40
\* characters and consists end to end of base64-alphabet characters is
\* redacted by sanitize_evidence, for every length above 40 (41 to 49 too).
C15_LongBase64Redacted ==
    pc = "sanitized" => LongBase64Redacted(evidence, sanitized)

----------------------------------------------------------------------------
\* Lines a container's log has beyond LinesKeep, and entries a list section
\* has beyond ListKeep, in the long sections drawn.
Overflow == 1

\* The character budgets drawn.
Budgets == {5, 60, 400, 1100, 4000}

Line == Str(<<"l">>)

Lines(n) == List(Rep(Line, n))

Event(type, reason) ==
    Dict(<<Item(<<"t", "y", "p", "e">>, Str(type)),
           Item(<<"r", "e", "a", "s", "o", "n">>, Str(reason))>>)

WarningEvent ==
    Event(<<"W", "a", "r", "n", "i", "n", "g">>,
          <<"B", "a", "c", "k", "O", "f", "f">>)

PodLogsChoices ==
    {<<>>,
     <<Item(LOG_KEYS[1], Dict(<<Item(<<"a", "p", "p">>, Lines(3))>>))>>,
     <<Item(LOG_KEYS[1],
            Dict(<<Item(<<"a", "p", "p">>, Lines(LinesKeep + Overflow))>>))>>,
     <<Item(LOG_KEYS[1],
            Dict(<<Item(<<"a", "p", "p">>, Lines(LinesKeep + Overflow)),
                   Item(<<"s", "i", "d", "e", "c", "a", "r">>, Lines(2))>>))>>,
     <<Item(LOG_KEYS[1],
            Dict([c \in 1..(ContainersSeen + Overflow) |->
                     Item(<<"c">> \o IntChars(c - 1),
                          Lines(IF c > ContainersSeen THEN LinesKeep + Overflow ELSE 0))]))>>,
     <<Item(LOG_KEYS[1], Lines(ListKeep + Overflow))>>,
     <<Item(LOG_KEYS[1], Str(<<"n", "o", " ", "l", "o", "g", "s">>))>>}

PodEventsChoices ==
    {<<>>,
     <<Item(LOG_KEYS[4], List(<<WarningEvent>>))>>,
     <<Item(LOG_KEYS[4], List(Rep(WarningEvent, ListKeep + Overflow)))>>}

PodChoices ==
    {<<>>,
     <<Item(<<"p", "o", "d">>,
            Dict(<<Item(<<"s", "t", "a", "t", "u", "s">>,
                        Dict(<<Item(<<"p", "h", "a", "s", "e">>,
                                    Str(<<"R", "u", "n", "n", "i", "n", "g">>))>>))>>))>>}

ErrorChoices ==
    {<<>>,
     <<Item(<<"e", "r", "r", "o", "r">>, Null)>>,
     <<Item(<<"e", "r", "r", "o", "r">>, Str(<<"r", "e", "a", "d">>))>>}

TruncInputs ==
    {Dict(p \o l \o e \o x) :
        p \in PodChoices, l \in PodLogsChoices, e \in PodEventsChoices,
        x \in ErrorChoices}

InitTrunc ==
    /\ pc = "collected"
    /\ evidence \in TruncInputs
    /\ max_chars \in Budgets
    /\ truncated = EmptyDict
    /\ report = NoReport
    /\ retruncated = EmptyDict
    /\ rereport = NoReport
    /\ sanitized = EmptyDict
    /\ resanitized = EmptyDict
    /\ IdleIntel
    /\ IdleDiff
    /\ IdleHeur

\* truncated, report = truncate_evidence_for_llm(evidence, max_chars)
Truncate ==
    /\ pc = "collected"
    /\ LET call == truncate_evidence_for_llm(evidence, max_chars)
       IN  /\ evidence' = call.evidence
           /\ truncated' = call.truncated
           /\ report' = call.report
    /\ pc' = "truncated"
    /\ UNCHANGED <<max_chars, retruncated, rereport, sanitized, resanitized,
                   varsIntel, varsDiff, varsHeur>>

\* the same call once more, on the same tree object and budget
TruncateAgain ==
    /\ pc = "truncated"
    /\ LET call == truncate_evidence_for_llm(evidence, max_chars)
       IN  /\ evidence' = call.evidence
           /\ retruncated' = call.truncated
           /\ rereport' = call.report
    /\ pc' = "retruncated"
    /\ UNCHANGED <<max_chars, truncated, report, sanitized, resanitized,
                   varsIntel, varsDiff, varsHeur>>

NextTrunc ==
    \/ Truncate
    \/ TruncateAgain

SpecTrunc == InitTrunc /\ [][NextTrunc]_vars

----------------------------------------------------------------------------
(* Claims about the budget truncator                                       *)

\* C4: the serialized size of the returned tree (total_chars_after) is never
\* larger than the serialized size of the input tree (total_chars_before).
C4_TruncationNeverGrows ==
    pc = "truncated" => report.total_chars_after <= report.total_chars_before

\* C5: the call leaves the caller's evidence tree as it was.
C5_InputLeftUnchanged ==
    [][(pc = "collected" /\ pc' = "truncated") => evidence' = evidence]_vars

\* C6: a second call with the same tree object and the same budget returns a
\* tree and a report equal to those of the first call.
C6_TruncationRepeatable ==
    pc = "retruncated" => (retruncated = truncated /\ rereport = report)

\* C11: a tree whose serialized size is within max_chars is returned as it
\* was given, with a report of truncated = false, no truncated sections and
\* total_chars_after = total_chars_before; a report with truncated = true
\* comes only from a tree whose serialized size exceeds max_chars.
C11_SmallTreeReturnedUnchanged ==
    [][(pc = "collected" /\ pc' = "truncated")
          => /\ JsonLen(evidence) <= max_chars
                   => /\ truncated' = evidence
                      /\ evidence' = evidence
                      /\ report' = Report(FALSE, <<>>, JsonLen(evidence),
                                          JsonLen(evidence))
             /\ report'.truncated => JsonLen(evidence) > max_chars]_vars

C11_Witness ==
    /\ pc = "truncated"
    /\ ~report.truncated
    /\ Len(evidence.kids) >= 2
    /\ report.total_chars_before > 60
    /\ report.total_chars_before <= max_chars

\* the top-level keys of the returned tree that are no marker keys
SheddableKeys == {i \in 1..Len(truncated.kids) : ~StartsWithUnderscore(truncated.kids[i].k)}

\* key i of the returned tree was shrunk (it, or one of its containers, is
\* listed in sections_truncated) or replaced by a placeholder
ShrunkOrReplaced(i) ==
    LET k == truncated.kids[i].k
        v == truncated.kids[i].v
        mark == <<"[", "T", "R", "U", "N", "C", "A", "T", "E", "D", ":", " ">>
    IN  \/ \E s \in 1..Len(report.sections_truncated) :
              \/ report.sections_truncated[s] = k
              \/ /\ Len(report.sections_truncated[s]) > Len(k)
                 /\ SubSeq(report.sections_truncated[s], 1, Len(k) + 1) = k \o <<".">>
        \/ v.t = "str" /\ Len(v.s) >= Len(mark) /\ SubSeq(v.s, 1, Len(mark)) = mark

\* C25: truncation stops over budget only at its floor: when the returned
\* tree's serialized size still exceeds max_chars, every top-level key that
\* is no marker key has been shrunk or replaced by a placeholder; and no
\* replacement step picks a key already shrunk or replaced, so no key is
\* listed twice in sections_truncated.
C25_OverBudgetOnlyAtFloor ==
    (pc = "truncated" /\ JsonLen(truncated) > max_chars)
        => /\ \A i \in SheddableKeys : ShrunkOrReplaced(i)
           /\ \A s, u \in 1..Len(report.sections_truncated) :
                 report.sections_truncated[s] = report.sections_truncated[u] => s = u

\* C26: for an over-budget input, a high-volume key that was a list holds
\* in the returned tree the first 50 entries of the input, the number
\* dropped stored under _<key>_truncated; one that was a per-container
\* mapping holds for every container, however many there are, the last 200
\* lines of the input; every key or key.container shortened is listed in
\* sections_truncated.
C26_HighVolumeKeysCapped ==
    [][(pc = "collected" /\ pc' = "truncated" /\ JsonLen(evidence) > max_chars)
          => \A n \in 1..Len(LOG_KEYS) :
                LET key == LOG_KEYS[n]
                    was == ChildOr(evidence, key, Null)
                    now == ChildOr(truncated', key, Null)
                    listed == Range(report'.sections_truncated)
                IN  /\ (was.t = "list" /\ now.t = "list")
                          => /\ now.kids = SubSeq(was.kids, 1, Min(Len(was.kids), ListKeep))
                             /\ Len(was.kids) > ListKeep
                                   => /\ ChildOr(truncated', TruncatedMarkerKey(key), Null)
                                            = Num(Len(was.kids) - ListKeep)
                                      /\ key \in listed
                    /\ (was.t = "dict" /\ now.t = "dict")
                          => \A c \in 1..Len(was.kids) :
                                LET lines == was.kids[c].v
                                    kept == ChildOr(now, was.kids[c].k, Null)
                                IN  lines.t = "list"
                                       => /\ kept.t = "list"
                                          /\ Len(kept.kids) <= LinesKeep
                                          /\ kept.kids = SubSeq(lines.kids,
                                                Len(lines.kids) - Min(Len(lines.kids), LinesKeep) + 1,
                                                Len(lines.kids))
                                          /\ Len(lines.kids) > LinesKeep
                                                => key \o <<".">> \o was.kids[c].k \in listed]_vars

----------------------------------------------------------------------------
(* Snapshots compared by the diff engine                                   *)
(*                                                                         *)
(* A snapshot is a row of the history store: analysis_json is a mapping    *)
(* and evidence_summary is the text json.dumps(evidence)[:10000] written   *)
(* by save_analysis, or None.  The summaries drawn are the texts of small  *)
(* evidence trees and the texts _parse_evidence is written to cope with.   *)

Condition(type, status) ==
    Dict(<<Item(<<"t", "y", "p", "e">>, Str(type)), Item(<<"s", "t", "a", "t", "u", "s">>, Str(status))>>)

\* an entry of pod.status.containerStatuses as _serialize_pod writes it
ContainerStatus(name, restarts, waiting, terminated) ==
    Dict(<<Item(<<"n", "a", "m", "e">>, Str(name)),
           Item(<<"r", "e", "s", "t", "a", "r", "t", "C", "o", "u", "n", "t">>, Num(restarts)),
           Item(<<"s", "t", "a", "t", "e">>,
                IF waiting = <<>> THEN Dict(<<Item(<<"r", "u", "n", "n", "i", "n", "g">>, EmptyDict)>>)
                ELSE Dict(<<Item(<<"w", "a", "i", "t", "i", "n", "g">>,
                                 Dict(<<Item(<<"r", "e", "a", "s", "o", "n">>, Str(waiting))>>))>>)),
           Item(<<"l", "a", "s", "t", "S", "t", "a", "t", "e">>,
                IF terminated = <<>> THEN EmptyDict
                ELSE Dict(<<Item(<<"t", "e", "r", "m", "i", "n", "a", "t", "e", "d">>,
                                 Dict(<<Item(<<"r", "e", "a", "s", "o", "n">>, Str(terminated))>>))>>))>>)

PodWithStatuses(statuses) ==
    Dict(<<Item(<<"s", "t", "a", "t", "u", "s">>,
                Dict(<<Item(<<"p", "h", "a", "s", "e">>, Str(<<"R", "u", "n", "n", "i", "n", "g">>)),
                       Item(<<"c", "o", "n", "t", "a", "i", "n", "e", "r", "S", "t", "a", "t", "u", "s", "e", "s">>, List(statuses))>>))>>)

\* The container status lists drawn: one healthy container, the same
\* container crash looping after an OOM kill, two containers, none.
ContainerStatusLists ==
    {<<ContainerStatus(<<"a", "p", "p">>, 0, <<>>, <<>>)>>,
     <<ContainerStatus(<<"a", "p", "p">>, 2, <<"C", "r", "a", "s", "h", "L", "o", "o", "p", "B", "a", "c", "k", "O", "f", "f">>, <<"O", "O", "M", "K", "i", "l", "l", "e", "d">>)>>,
     <<ContainerStatus(<<"a", "p", "p">>, 0, <<>>, <<>>), ContainerStatus(<<"s", "i", "d", "e">>, 0, <<>>, <<>>)>>,
     <<>>}

\* The pod condition lists drawn: none, one type in two states, two types.
PodConditionLists ==
    {<<>>,
     <<Condition(<<"R", "e", "a", "d", "y">>, <<"T", "r", "u", "e">>)>>,
     <<Condition(<<"R", "e", "a", "d", "y">>, <<"F", "a", "l", "s", "e">>)>>,
     <<Condition(<<"I", "n", "i", "t", "i", "a", "l", "i", "z", "e", "d">>, <<"T", "r", "u", "e">>), Condition(<<"R", "e", "a", "d", "y">>, <<"F", "a", "l", "s", "e">>)>>}

PodPhases == {<<"P", "e", "n", "d", "i", "n", "g">>, <<"R", "u", "n", "n", "i", "n", "g">>}

PodEvidence(phase, conditions) ==
    Dict(<<Item(<<"p", "o", "d">>,
                Dict(<<Item(<<"s", "t", "a", "t", "u", "s">>,
                            Dict(<<Item(<<"p", "h", "a", "s", "e">>, Str(phase)),
                                   Item(<<"c", "o", "n", "d", "i", "t", "i", "o", "n", "s">>, List(conditions))>>))>>))>>)

DiffEvidence ==
    {EmptyDict}
    \cup {PodEvidence(p, c) : p \in PodPhases, c \in PodConditionLists}
    \cup {Dict(<<Item(<<"p", "o", "d">>, PodWithStatuses(statuses))>>) :
             statuses \in ContainerStatusLists}

\* evidence_summary as the history store writes it (texts far below the
\* 10000 characters kept)
StoredSummaries == {Str(JsonDumps(ev)) : ev \in DiffEvidence}

\* None, empty, whitespace, text that is no JSON, JSON cut short, and JSON
\* texts whose value is no mapping or whose pod is null
OddSummaries ==
    {Null, Str(<<>>), Str(<<" ", " ", " ">>), Str(<<"n", "o", "t", " ", "j", "s", "o", "n">>),
     Str(<<"{", "\"">> \o <<"t", "r", "u", "n", "c", "a", "t", "e", "d">> \o <<"\"">> \o <<":", " ", "t", "r", "u", "e">>),
     Str(<<"[", "]">>), Str(<<"n", "u", "l", "l">>), Str(<<"1", "2">>),
     Str(<<"{", "\"">> \o <<"p", "o", "d">> \o <<"\"">> \o <<":", " ", "n", "u", "l", "l", "}">>)}

AnalysisJsons ==
    {EmptyDict,
     Dict(<<Item(<<"s", "u", "m", "m", "a", "r", "y">>, Str(<<"P", "o", "d", " ", "i", "s", " ", "c", "r", "a", "s", "h", " ", "l", "o", "o", "p", "i", "n", "g">>)),
            Item(<<"k", "u", "b", "e", "c", "t", "l", "_", "c", "o", "m", "m", "a", "n", "d", "s">>,
                 List(<<Str(<<"k", "u", "b", "e", "c", "t", "l", " ", "d", "e", "s", "c", "r", "i", "b", "e", " ", "p", "o", "d", " ", "a", "p", "p">>)>>))>>)}

Snapshots ==
    {Dict(<<Item(<<"a", "n", "a", "l", "y", "s", "i", "s", "_", "j", "s", "o", "n">>, j), Item(<<"e", "v", "i", "d", "e", "n", "c", "e", "_", "s", "u", "m", "m", "a", "r", "y">>, s)>>) :
        j \in AnalysisJsons, s \in StoredSummaries \cup OddSummaries}

InitDiff ==
    /\ pc = "stored"
    /\ analysis_a \in Snapshots
    /\ analysis_b \in Snapshots
    /\ changes = Ok(<<>>)
    /\ IdleIntel
    /\ IdleRedact
    /\ IdleTrunc
    /\ IdleHeur

\* changes = compute_diffs(analysis_a, analysis_b)
ComputeDiffs ==
    /\ pc = "stored"
    /\ changes' = compute_diffs(analysis_a, analysis_b)
    /\ pc' = "compared"
    /\ UNCHANGED <<analysis_a, analysis_b, varsIntel, varsRedact, varsTrunc, varsHeur>>

NextDiff == ComputeDiffs

SpecDiff == InitDiff /\ [][NextDiff]_vars

----------------------------------------------------------------------------
(* Claims about the diff engine                                            *)

\* C7: a snapshot compared with itself yields the empty list of changes,
\* whatever its evidence_summary and analysis_json are.
C7_SelfDiffIsEmpty ==
    (pc = "compared" /\ analysis_a = analysis_b)
        => (~changes.raised /\ changes.list = <<>>)

\* the pod condition list of a snapshot's evidence (empty where absent)
PodConditionsOf(analysis) ==
    LET ev == _parse_evidence(ChildOr(analysis, <<"e", "v", "i", "d", "e", "n", "c", "e", "_", "s", "u", "m", "m", "a", "r", "y">>, Null))
        pod == ChildOr(ev, <<"p", "o", "d">>, EmptyDict)
        status == ChildOr(pod, <<"s", "t", "a", "t", "u", "s">>, EmptyDict)
        conditions == ChildOr(status, <<"c", "o", "n", "d", "i", "t", "i", "o", "n", "s">>, List(<<>>))
    IN  IF conditions.t = "list" THEN conditions.kids ELSE <<>>

ConditionTypesOf(conditions) ==
    {ChildOr(conditions[i].v, <<"t", "y", "p", "e">>, Null) : i \in 1..Len(conditions)}
    \ {Null}

\* the condition object of a type in a condition list, Null where absent
ConditionOf(conditions, type) ==
    IF \E i \in 1..Len(conditions) : ChildOr(conditions[i].v, <<"t", "y", "p", "e">>, Null) = type
    THEN conditions[CHOOSE i \in 1..Len(conditions) :
                        ChildOr(conditions[i].v, <<"t", "y", "p", "e">>, Null) = type].v
    ELSE Null

HasConditionRecord(type) ==
    \E i \in 1..Len(changes.list) :
        /\ changes.list[i].type = "condition"
        /\ changes.list[i].path
               = <<"p", "o", "d", ".", "s", "t", "a", "t", "u", "s", ".", "c", "o", "n", "d", "i", "t", "i", "o", "n", "s", "[">> \o type.s \o <<"]">>

\* C8: where the comparison returns, every condition type of either
\* snapshot's pod condition list has a record of type condition exactly when
\* its condition objects differ, a type present in one snapshot only
\* included.
C8_ConditionRecordIffDiffers ==
    (pc = "compared" /\ ~changes.raised)
        => \A type \in ConditionTypesOf(PodConditionsOf(analysis_a))
                       \cup ConditionTypesOf(PodConditionsOf(analysis_b)) :
               HasConditionRecord(type)
                   <=> ConditionOf(PodConditionsOf(analysis_a), type)
                           # ConditionOf(PodConditionsOf(analysis_b), type)

\* C13: compute_diffs returns a list and never ends in an error, whatever
\* the evidence_summary texts of the two snapshots are (None, empty, blank,
\* no JSON, JSON cut short, or valid JSON of any top-level type).
C13_DiffNeverRaises == pc = "compared" => ~changes.raised

\* the evidence tree compute_diffs reads from a snapshot
EvidenceOf(analysis) ==
    _parse_evidence(ChildOr(analysis, <<"e", "v", "i", "d", "e", "n", "c", "e", "_", "s", "u", "m", "m", "a", "r", "y">>, Null))

\* pod.status of a snapshot's evidence, Null where it has none
MainPodStatusOf(analysis) ==
    ChildOr(ChildOr(EvidenceOf(analysis), <<"p", "o", "d">>, Null), <<"s", "t", "a", "t", "u", "s">>, Null)

PhaseOf(analysis) == ChildOr(MainPodStatusOf(analysis), <<"p", "h", "a", "s", "e">>, Null)

HasProblematicPods(analysis) ==
    ChildOr(EvidenceOf(analysis), <<"p", "r", "o", "b", "l", "e", "m", "a", "t", "i", "c", "_", "p", "o", "d", "s", "_", "e", "v", "i", "d", "e", "n", "c", "e">>, Null) # Null

PodPhaseRecords == {i \in 1..Len(changes.list) : changes.list[i].type = "pod_phase"}

\* C19: for two snapshots whose main pod has a status and that hold no
\* problematic_pods_evidence: where the phases differ compute_diffs returns
\* exactly one record of type pod_phase, its path pod.status.phase, before
\* the older phase and after the newer one; where they are equal it returns
\* no record of type pod_phase.
C19_PodPhaseRecord ==
    (/\ pc = "compared"
     /\ MainPodStatusOf(analysis_a).t = "dict"
     /\ MainPodStatusOf(analysis_b).t = "dict"
     /\ ~HasProblematicPods(analysis_a) /\ ~HasProblematicPods(analysis_b))
        => /\ ~changes.raised
           /\ IF PhaseOf(analysis_a) = PhaseOf(analysis_b)
              THEN PodPhaseRecords = {}
              ELSE /\ Cardinality(PodPhaseRecords) = 1
                   /\ \A i \in PodPhaseRecords :
                         /\ changes.list[i].path = <<"p", "o", "d", ".", "s", "t", "a", "t", "u", "s", ".", "p", "h", "a", "s", "e">>
                         /\ changes.list[i].before = PhaseOf(analysis_a)
                         /\ changes.list[i].after = PhaseOf(analysis_b)

C19_Witness ==
    /\ pc = "compared"
    /\ PhaseOf(analysis_a) = Str(<<"P", "e", "n", "d", "i", "n", "g">>)
    /\ PhaseOf(analysis_b) = Str(<<"R", "u", "n", "n", "i", "n", "g">>)
    /\ Cardinality(PodPhaseRecords) = 1
    /\ Len(changes.list) >= 2

\* the entries of pod.status.containerStatuses of a snapshot's evidence
ContainerStatusesOf(analysis) ==
    LET statuses == ChildOr(MainPodStatusOf(analysis), <<"c", "o", "n", "t", "a", "i", "n", "e", "r", "S", "t", "a", "t", "u", "s", "e", "s">>, Null)
    IN  IF statuses.t = "list" THEN statuses.kids ELSE <<>>

ContainerNamesOf(statuses) ==
    {ChildOr(statuses[i].v, <<"n", "a", "m", "e">>, Null) : i \in 1..Len(statuses)} \ {Null}

\* the entry of a name in a container status list, Null where absent
ContainerOf(statuses, name) ==
    IF \E i \in 1..Len(statuses) : ChildOr(statuses[i].v, <<"n", "a", "m", "e">>, Null) = name
    THEN statuses[CHOOSE i \in 1..Len(statuses) :
                      ChildOr(statuses[i].v, <<"n", "a", "m", "e">>, Null) = name].v
    ELSE Null

\* the number of records of a type at a path
RecordCount(type, path) ==
    Cardinality({i \in 1..Len(changes.list) :
                    changes.list[i].type = type /\ changes.list[i].path = path})

ContainerPath(name) == <<"p", "o", "d", ".", "s", "t", "a", "t", "u", "s", ".", "c", "o", "n", "t", "a", "i", "n", "e", "r", "S", "t", "a", "t", "u", "s", "e", "s", "[">> \o name.s \o <<"]">>

\* the record types for the fields of a container status
ContainerFields ==
    {<<"restart_count", <<"r", "e", "s", "t", "a", "r", "t", "C", "o", "u", "n", "t">>>>, <<"container_state", <<"s", "t", "a", "t", "e">>>>,
     <<"last_state", <<"l", "a", "s", "t", "S", "t", "a", "t", "e">>>>}

\* a field of a container status entry, the restart count with 0 for none
FieldOf(entry, field) ==
    IF field = <<"r", "e", "s", "t", "a", "r", "t", "C", "o", "u", "n", "t">>
    THEN (IF ChildOr(entry, field, Null) = Null THEN Num(0)
          ELSE ChildOr(entry, field, Null))
    ELSE ChildOr(entry, field, Null)

\* C20: where the comparison returns, every container name of either
\* snapshot's containerStatuses, one that only the older snapshot has
\* included, has one record for each of restartCount, state and lastState
\* that differs between the snapshots and none for a field that does not;
\* a name that only the newer snapshot has has exactly one record, of type
\* container_added, and no record for a field.
C20_ContainerRecordsPerField ==
    (pc = "compared" /\ ~changes.raised)
        => \A name \in ContainerNamesOf(ContainerStatusesOf(analysis_a))
                       \cup ContainerNamesOf(ContainerStatusesOf(analysis_b)) :
               LET a_s == ContainerOf(ContainerStatusesOf(analysis_a), name)
                   b_s == ContainerOf(ContainerStatusesOf(analysis_b), name)
               IN  IF a_s = Null
                   THEN /\ RecordCount("container_added", ContainerPath(name)) = 1
                        /\ \A f \in ContainerFields :
                              RecordCount(f[1], ContainerPath(name) \o <<".">> \o f[2]) = 0
                   ELSE /\ RecordCount("container_added", ContainerPath(name)) = 0
                        /\ \A f \in ContainerFields :
                              RecordCount(f[1], ContainerPath(name) \o <<".">> \o f[2])
                                  = IF FieldOf(a_s, f[2]) # FieldOf(b_s, f[2])
                                    THEN 1 ELSE 0

----------------------------------------------------------------------------
(* Snapshots for the sections of the comparison: resources, problematic    *)
(* pods, events, node conditions and summaries                             *)

Snapshot(analysis_json, ev) ==
    Dict(<<Item(<<"a", "n", "a", "l", "y", "s", "i", "s", "_", "j", "s", "o", "n">>, analysis_json),
           Item(<<"e", "v", "i", "d", "e", "n", "c", "e", "_", "s", "u", "m", "m", "a", "r", "y">>, Str(JsonDumps(ev)))>>)

\* an entry of pod.spec.containers as _diff_resources reads it: a mapping
\* with a name and a resources block, None where the container declares none
SpecContainer(name, resources) ==
    Dict(<<Item(<<"n", "a", "m", "e">>, Str(name)), Item(<<"r", "e", "s", "o", "u", "r", "c", "e", "s">>, resources)>>)

CpuLimit(cpu) == Dict(<<Item(<<"l", "i", "m", "i", "t", "s">>, Dict(<<Item(<<"c", "p", "u">>, Str(cpu))>>))>>)

PodWithContainers(containers) ==
    Dict(<<Item(<<"p", "o", "d">>,
                Dict(<<Item(<<"s", "p", "e", "c">>,
                            Dict(<<Item(<<"c", "o", "n", "t", "a", "i", "n", "e", "r", "s">>, List(containers))>>))>>))>>)

\* One container with two limits and with no resources, two containers.
ResourceEvidence ==
    {PodWithContainers(<<SpecContainer(<<"a", "p", "p">>, CpuLimit(<<"1">>))>>),
     PodWithContainers(<<SpecContainer(<<"a", "p", "p">>, CpuLimit(<<"2">>))>>),
     PodWithContainers(<<SpecContainer(<<"a", "p", "p">>, Null)>>),
     PodWithContainers(<<SpecContainer(<<"a", "p", "p">>, CpuLimit(<<"1">>)),
                         SpecContainer(<<"s", "i", "d", "e">>, CpuLimit(<<"1">>))>>)}

\* Evidence of a workload: the pods in trouble, each with the evidence
\* collect_pod gathers for it (a pod with its status).
ProblematicEvidence ==
    {Dict(<<Item(<<"p", "r", "o", "b", "l", "e", "m", "a", "t", "i", "c", "_", "p", "o", "d", "s", "_", "e", "v", "i", "d", "e", "n", "c", "e">>, List(pods))>>) :
        pods \in {<<PodEvidence(<<"P", "e", "n", "d", "i", "n", "g">>, <<>>)>>,
                  <<PodEvidence(<<"P", "e", "n", "d", "i", "n", "g">>, <<>>), PodEvidence(<<"P", "e", "n", "d", "i", "n", "g">>, <<>>)>>,
                  <<PodEvidence(<<"R", "u", "n", "n", "i", "n", "g">>, <<>>), PodEvidence(<<"R", "u", "n", "n", "i", "n", "g">>, <<>>)>>}}
    \cup {Dict(PodEvidence(phase, <<>>).kids
               \o <<Item(<<"p", "r", "o", "b", "l", "e", "m", "a", "t", "i", "c", "_", "p", "o", "d", "s", "_", "e", "v", "i", "d", "e", "n", "c", "e">>,
                         List(<<PodEvidence(phase, <<>>)>>))>>) :
             phase \in PodPhases}

\* an entry of an event list as the collectors write it
StoredEvent(type, reason, message) ==
    Dict(<<Item(<<"t", "y", "p", "e">>, Str(type)), Item(<<"r", "e", "a", "s", "o", "n">>, Str(reason)),
           Item(<<"m", "e", "s", "s", "a", "g", "e">>, message)>>)

\* Event lists that grow from one another: by a warning, by an event with
\* neither a warning type nor a reason, by a warning without a message.
EventLists ==
    LET pulled == StoredEvent(<<"N", "o", "r", "m", "a", "l">>, <<"P", "u", "l", "l", "e", "d">>, Str(<<"p", "u", "l", "l", "e", "d", " ", "i", "m", "a", "g", "e">>))
    IN  {<<>>,
         <<pulled>>,
         <<pulled, StoredEvent(<<"W", "a", "r", "n", "i", "n", "g">>, <<"B", "a", "c", "k", "O", "f", "f">>, Str(<<"r", "e", "s", "t", "a", "r", "t", "i", "n", "g">>))>>,
         <<pulled, StoredEvent(<<"N", "o", "r", "m", "a", "l">>, <<>>, Str(<<"o", "k">>)),
           StoredEvent(<<"N", "o", "r", "m", "a", "l">>, <<"K", "i", "l", "l", "i", "n", "g">>, Str(<<"s", "t", "o", "p", "p", "i", "n", "g">>))>>,
         <<pulled, StoredEvent(<<"W", "a", "r", "n", "i", "n", "g">>, <<"F", "a", "i", "l", "e", "d">>, Null)>>}

EventEvidence ==
    {Dict(<<Item(<<"p", "o", "d", "_", "e", "v", "e", "n", "t", "s">>, List(events))>>) : events \in EventLists}
    \cup {Dict(<<Item(<<"n", "o", "d", "e", "_", "e", "v", "e", "n", "t", "s">>,
                     List(<<StoredEvent(<<"W", "a", "r", "n", "i", "n", "g">>, <<"N", "o", "d", "e", "N", "o", "t", "R", "e", "a", "d", "y">>,
                                        Str(<<"n", "o", "d", "e", " ", "d", "o", "w", "n">>))>>))>>)}

\* node as collect_node writes it
NodeWithConditions(conditions) ==
    Dict(<<Item(<<"s", "t", "a", "t", "u", "s">>, Dict(<<Item(<<"c", "o", "n", "d", "i", "t", "i", "o", "n", "s">>, List(conditions))>>))>>)

\* Node evidence as collect_node writes it: the conditions under
\* node.status.conditions, Ready in two states.
NodeEvidence ==
    {Dict(<<Item(<<"n", "o", "d", "e">>, NodeWithConditions(<<Condition(<<"R", "e", "a", "d", "y">>, status)>>))>>) :
        status \in {<<"T", "r", "u", "e">>, <<"F", "a", "l", "s", "e">>}}

\* a summary whose first SummaryRecordKeep characters are the same whatever
\* its ending is
LongSummary(ending) == Rep("s", SummaryRecordKeep) \o ending

\* Snapshots whose stored analyses differ in their summary: two short
\* summaries, and two long ones that differ after SummaryRecordKeep
\* characters only.
SummarySnapshots ==
    {Snapshot(Dict(<<Item(<<"s", "u", "m", "m", "a", "r", "y">>, Str(summary))>>), EmptyDict) :
        summary \in {<<"P", "o", "d", " ", "i", "s", " ", "c", "r", "a", "s", "h", " ", "l", "o", "o", "p", "i", "n", "g">>, <<"P", "o", "d", " ", "i", "s", " ", "r", "u", "n", "n", "i", "n", "g">>,
                     LongSummary(<<"a">>), LongSummary(<<"b">>)}}

SectionEvidence ==
    {EmptyDict} \cup ResourceEvidence \cup ProblematicEvidence
    \cup EventEvidence \cup NodeEvidence

SectionSnapshots ==
    {Snapshot(EmptyDict, ev) : ev \in SectionEvidence} \cup SummarySnapshots

InitDiffSections ==
    /\ pc = "stored"
    /\ analysis_a \in SectionSnapshots
    /\ analysis_b \in SectionSnapshots
    /\ changes = Ok(<<>>)
    /\ IdleIntel
    /\ IdleRedact
    /\ IdleTrunc
    /\ IdleHeur

SpecDiffSections == InitDiffSections /\ [][NextDiff]_vars

----------------------------------------------------------------------------
(* Claims about the sections of the comparison                             *)

\* the entries of pod.spec.containers of a snapshot's evidence
SpecContainersOf(analysis) ==
    LET containers ==
            ChildOr(ChildOr(ChildOr(EvidenceOf(analysis), <<"p", "o", "d">>, Null),
                            <<"s", "p", "e", "c">>, Null), <<"c", "o", "n", "t", "a", "i", "n", "e", "r", "s">>, Null)
    IN  IF containers.t = "list" THEN containers.kids ELSE <<>>

\* the resources block of a name in a container list, Null where the
\* container or its block is absent
ResourcesOf(containers, name) ==
    ChildOr(ContainerOf(containers, name), <<"r", "e", "s", "o", "u", "r", "c", "e", "s">>, Null)

ResourcesPath(name) == <<"p", "o", "d", ".", "s", "p", "e", "c", ".", "c", "o", "n", "t", "a", "i", "n", "e", "r", "s", "[">> \o name.s \o <<"]", ".", "r", "e", "s", "o", "u", "r", "c", "e", "s">>

\* C21: compute_diffs returns a record of type resources for a container
\* name only when the container has a resources block in the
\* pod.spec.containers of both snapshots and the two blocks differ; a
\* container that is, or has a resources block, in one snapshot only has no
\* resources record.
C21_ResourcesRecordNeedsBothBlocks ==
    (pc = "compared" /\ ~changes.raised)
        => \A name \in ContainerNamesOf(SpecContainersOf(analysis_a))
                       \cup ContainerNamesOf(SpecContainersOf(analysis_b)) :
               RecordCount("resources", ResourcesPath(name)) > 0
                   => /\ ResourcesOf(SpecContainersOf(analysis_a), name) # Null
                      /\ ResourcesOf(SpecContainersOf(analysis_b), name) # Null
                      /\ ResourcesOf(SpecContainersOf(analysis_a), name)
                             # ResourcesOf(SpecContainersOf(analysis_b), name)

\* C22: no two records of one compute_diffs result carry the same type and
\* the same path: a record made by comparing item i of
\* problematic_pods_evidence has a path that tells it from the record of the
\* same field of the main pod and of every other item.
C22_PathsLocateFields ==
    (pc = "compared" /\ ~changes.raised)
        => \A i, j \in 1..Len(changes.list) :
               (/\ changes.list[i].type = changes.list[j].type
                /\ changes.list[i].path = changes.list[j].path) => i = j

\* the list under an event key of a snapshot's evidence
EventsOf(analysis, key) ==
    LET events == ChildOr(EvidenceOf(analysis), key, Null)
    IN  IF events.t = "list" THEN events.kids ELSE <<>>

\* an event that is reported when it is new: a mapping whose type is
\* "Warning" or whose reason is a text that is not empty
Reportable(e) ==
    /\ e.t = "dict"
    /\ \/ ChildOr(e, <<"t", "y", "p", "e">>, Null) = Str(<<"W", "a", "r", "n", "i", "n", "g">>)
       \/ /\ ChildOr(e, <<"r", "e", "a", "s", "o", "n">>, Null).t = "str"
          /\ ChildOr(e, <<"r", "e", "a", "s", "o", "n">>, Null).s # <<>>

\* the records of type event whose path is key[...]
EventRecordsOf(key) ==
    {i \in 1..Len(changes.list) :
        /\ changes.list[i].type = "event"
        /\ Len(changes.list[i].path) > Len(key)
        /\ SubSeq(changes.list[i].path, 1, Len(key) + 1) = key \o <<"[">>}

\* C23: for each of the keys pod_events, workload_events and node_events
\* compute_diffs returns exactly one record of type event for every element
\* of the newer list at an index at or past the length of the older list
\* that is a mapping with type "Warning" or a reason that is not empty, with
\* before = null, after = the element and path key[i], i the element's index
\* in the newer list, and no other record of type event.
C23_EventRecordsForNewEvents ==
    pc = "compared"
        => \A key \in {<<"p", "o", "d", "_", "e", "v", "e", "n", "t", "s">>, <<"w", "o", "r", "k", "l", "o", "a", "d", "_", "e", "v", "e", "n", "t", "s">>, <<"n", "o", "d", "e", "_", "e", "v", "e", "n", "t", "s">>} :
              LET a_list == EventsOf(analysis_a, key)
                  b_list == EventsOf(analysis_b, key)
                  new == {i \in (Len(a_list) + 1)..Len(b_list) :
                             Reportable(b_list[i].v)}
              IN  /\ new # {} => ~changes.raised
                  /\ ~changes.raised =>
                        /\ Cardinality(EventRecordsOf(key)) = Cardinality(new)
                        /\ \A i \in new :
                              \E r \in EventRecordsOf(key) :
                                  /\ changes.list[r].path
                                         = key \o <<"[">> \o IntChars(i - 1) \o <<"]">>
                                  /\ changes.list[r].before = Null
                                  /\ changes.list[r].after = b_list[i].v

\* the node condition list of a snapshot's evidence, at the place the
\* collector writes it and extract_signals reads it
NodeConditionsOf(analysis) ==
    LET conditions == ChildOr(ChildOr(ChildOr(EvidenceOf(analysis), <<"n", "o", "d", "e">>, EmptyDict),
                                      <<"s", "t", "a", "t", "u", "s">>, EmptyDict), <<"c", "o", "n", "d", "i", "t", "i", "o", "n", "s">>, List(<<>>))
    IN  IF conditions.t = "list" THEN conditions.kids ELSE <<>>

HasNodeConditionRecord(type) ==
    \E i \in 1..Len(changes.list) :
        /\ changes.list[i].type = "node_condition"
        /\ Contains(changes.list[i].path, <<"[">> \o type.s \o <<"]">>)

\* C29: the diff engine and the signal extractor read node conditions from
\* the same place: for snapshots whose node sub-tree holds its conditions
\* under node.status.conditions, a condition type whose objects differ has a
\* node_condition record, and so has Ready whenever the extractor's
\* node_not_ready differs between the two evidence trees.
C29_NodeConditionsReadAlike ==
    (pc = "compared" /\ ~changes.raised)
        => /\ \A type \in ConditionTypesOf(NodeConditionsOf(analysis_a))
                          \cup ConditionTypesOf(NodeConditionsOf(analysis_b)) :
                 ConditionOf(NodeConditionsOf(analysis_a), type)
                         # ConditionOf(NodeConditionsOf(analysis_b), type)
                     => HasNodeConditionRecord(type)
           /\ LET a_sig == NodeSignals(EvidenceOf(analysis_a))
                  b_sig == NodeSignals(EvidenceOf(analysis_b))
              IN  (~a_sig.raised /\ ~b_sig.raised /\ a_sig.not_ready # b_sig.not_ready)
                      => HasNodeConditionRecord(Str(<<"R", "e", "a", "d", "y">>))

\* C30: every record of a comparison reports a real difference: its before
\* and after values are unequal, summary records cut to 200 characters
\* included.
C30_RecordsReportDifferences ==
    (pc = "compared" /\ ~changes.raised)
        => \A i \in 1..Len(changes.list) :
              ~PyEq(changes.list[i].before, changes.list[i].after)

----------------------------------------------------------------------------
(* Evidence trees the extractor is given, and its actions                  *)

ExtractPodChoices ==
    {<<>>,
     <<Item(<<"p", "o", "d">>, PodWithStatuses(
           <<ContainerStatus(<<"a", "p", "p">>, 0, <<>>, <<>>)>>))>>,
     <<Item(<<"p", "o", "d">>, PodWithStatuses(
           <<ContainerStatus(<<"a", "p", "p">>, 3, <<"C", "r", "a", "s", "h", "L", "o", "o", "p", "B", "a", "c", "k", "O", "f", "f">>, <<"O", "O", "M", "K", "i", "l", "l", "e", "d">>)>>))>>,
     <<Item(<<"p", "o", "d">>, PodWithStatuses(
           <<ContainerStatus(<<"a", "p", "p">>, 0, <<"I", "m", "a", "g", "e", "P", "u", "l", "l", "B", "a", "c", "k", "O", "f", "f">>, <<>>),
             ContainerStatus(<<"s", "i", "d", "e">>, 2, <<>>, <<"E", "r", "r", "o", "r">>)>>))>>,
     <<Item(<<"p", "o", "d">>, PodWithStatuses(
           [i \in 1..5 |->
               SetKey(ContainerStatus(<<"a", "p", "p">>, 2, <<>>, <<>>), <<"r", "e", "s", "t", "a", "r", "t", "C", "o", "u", "n", "t">>,
                      <<Bool(TRUE), Num(2), Num(-3), Str(<<"4">>), Null>>[i])]))>>,
     <<Item(<<"p", "o", "d">>, PodWithStatuses(<<Str(<<"x">>)>>))>>,
     <<Item(<<"p", "o", "d">>, List(<<Str(<<"x">>)>>))>>,
     <<Item(<<"p", "o", "d">>, Str(<<"a", "p", "p">>))>>}

EventOf(type, reason) ==
    Dict(<<Item(<<"t", "y", "p", "e">>, Str(type)), Item(<<"r", "e", "a", "s", "o", "n">>, Str(reason))>>)

ExtractEventChoices ==
    {<<>>,
     <<Item(<<"p", "o", "d", "_", "e", "v", "e", "n", "t", "s">>,
            List(<<EventOf(<<"W", "a", "r", "n", "i", "n", "g">>, <<"F", "a", "i", "l", "e", "d", "S", "c", "h", "e", "d", "u", "l", "i", "n", "g">>),
                   EventOf(<<"N", "o", "r", "m", "a", "l">>, <<"P", "u", "l", "l", "e", "d">>)>>))>>,
     <<Item(<<"p", "o", "d", "_", "e", "v", "e", "n", "t", "s">>,
            List(<<Str(<<"x">>), EventOf(<<"W", "a", "r", "n", "i", "n", "g">>, <<"B", "a", "c", "k", "O", "f", "f">>)>>)),
       Item(<<"n", "o", "d", "e", "_", "e", "v", "e", "n", "t", "s">>, List(<<EventOf(<<"w", "a", "r", "n", "i", "n", "g">>, <<"R", "e", "b", "o", "o", "t", "e", "d">>)>>))>>,
     <<Item(<<"d", "e", "p", "l", "o", "y", "m", "e", "n", "t", "_", "e", "v", "e", "n", "t", "s">>, Str(<<"n", "o", "n", "e">>))>>}

Workload(replicas, ready) ==
    Dict(<<Item(<<"s", "p", "e", "c">>, Dict(<<Item(<<"r", "e", "p", "l", "i", "c", "a", "s">>, replicas)>>)),
           Item(<<"s", "t", "a", "t", "u", "s">>, Dict(<<Item(<<"r", "e", "a", "d", "y", "R", "e", "p", "l", "i", "c", "a", "s">>, ready)>>))>>)

ExtractWorkloadChoices ==
    {<<>>,
     <<Item(<<"d", "e", "p", "l", "o", "y", "m", "e", "n", "t">>, Workload(Num(3), Num(3)))>>,
     <<Item(<<"d", "e", "p", "l", "o", "y", "m", "e", "n", "t">>, Workload(Num(3), Num(1)))>>,
     <<Item(<<"s", "t", "a", "t", "e", "f", "u", "l", "s", "e", "t">>, Workload(Null, Null))>>,
     <<Item(<<"d", "e", "p", "l", "o", "y", "m", "e", "n", "t">>, Workload(Str(<<"3">>), Num(1)))>>,
     <<Item(<<"d", "e", "p", "l", "o", "y", "m", "e", "n", "t">>, Workload(Num(3), Num(1))),
       Item(<<"r", "e", "p", "l", "i", "c", "a", "s", "e", "t">>, Workload(Num(3), Num(3)))>>,
     <<Item(<<"d", "e", "p", "l", "o", "y", "m", "e", "n", "t">>, Workload(Num(0), Null)),
       Item(<<"s", "t", "a", "t", "e", "f", "u", "l", "s", "e", "t">>, Workload(Num(2), Null))>>,
     <<Item(<<"d", "e", "p", "l", "o", "y", "m", "e", "n", "t">>, Workload(Num(0), Num(0))),
       Item(<<"d", "a", "e", "m", "o", "n", "s", "e", "t">>, Dict(<<Item(<<"s", "t", "a", "t", "u", "s">>, EmptyDict)>>))>>,
     <<Item(<<"d", "a", "e", "m", "o", "n", "s", "e", "t">>, List(<<Str(<<"x">>)>>))>>}

ExtractNodeChoices ==
    {<<>>,
     <<Item(<<"n", "o", "d", "e">>, NodeWithConditions(
           <<Condition(<<"R", "e", "a", "d", "y">>, <<"T", "r", "u", "e">>), Str(<<"x">>)>>))>>,
     <<Item(<<"n", "o", "d", "e">>, NodeWithConditions(<<Condition(<<"R", "e", "a", "d", "y">>, <<"F", "a", "l", "s", "e">>)>>))>>,
     <<Item(<<"n", "o", "d", "e">>, Str(<<"w", "o", "r", "k", "e", "r">>))>>}

ExtractInputs ==
    {Dict(p \o e \o w \o n) :
        p \in ExtractPodChoices, e \in ExtractEventChoices,
        w \in ExtractWorkloadChoices, n \in ExtractNodeChoices}

InitExtract ==
    /\ pc = "evidence"
    /\ evidence \in ExtractInputs
    /\ sanitized = EmptyDict
    /\ resanitized = EmptyDict
    /\ IdleIntel
    /\ IdleTrunc
    /\ IdleDiff
    /\ IdleHeur

\* analyze_with_engine: signals = extract_signals(evidence); an error of
\* the call ends analyze_with_engine
Extract ==
    /\ pc = "evidence"
    /\ \E r \in {extract_signals(evidence)} :
          /\ pc' = IF r.raised THEN "extract_raised" ELSE "signals"
          /\ signals' = IF r.raised THEN signals ELSE r.signals
    /\ UNCHANGED <<findings, engine_confidence, varsRedact, varsTrunc, varsDiff, varsHeur>>

NextExtract ==
    \/ Extract
    \/ Classify
    \/ Score

SpecExtract == InitExtract /\ [][NextExtract]_vars

----------------------------------------------------------------------------
(* Claims about the signal extractor                                       *)

\* C12: extract_signals returns a signal vector for every evidence tree,
\* also one with a scalar container status, event or condition entry, a
\* pod, workload or node that is a list or a string, or a spec.replicas
\* that is no number: the call never ends in an error.
C12_ExtractNeverRaises == pc # "extract_raised"

\* the container statuses of the evidence tree (none where there is no pod)
ExtractStatusesOf ==
    LET statuses == ChildOr(ChildOr(ChildOr(evidence, <<"p", "o", "d">>, EmptyDict), <<"s", "t", "a", "t", "u", "s">>, EmptyDict),
                            <<"c", "o", "n", "t", "a", "i", "n", "e", "r", "S", "t", "a", "t", "u", "s", "e", "s">>, List(<<>>))
    IN  IF statuses.t = "list" THEN statuses.kids ELSE <<>>

\* the extractor returned, and its result is in signals
Extracted == pc \in {"signals", "classified", "scored"}

\* C27: restart_count is the sum, over the container statuses of
\* pod.status.containerStatuses, of the restartCount values that are
\* non-negative integers; negative values, null, strings and booleans add
\* nothing, and a tree without a pod gives 0.
C27_RestartCountSumsIntegers ==
    Extracted
        => signals.restart_count
              = SumTo([i \in 1..Len(ExtractStatusesOf) |->
                          LET count == ChildOr(ExtractStatusesOf[i].v, <<"r", "e", "s", "t", "a", "r", "t", "C", "o", "u", "n", "t">>, Null)
                          IN  IF count.t = "int" /\ count.n >= 0 THEN count.n ELSE 0],
                      Len(ExtractStatusesOf))

\* the workloads of the evidence tree that declare d > 0 replicas and have
\* fewer ready (none ready where readyReplicas is missing or null)
MismatchedWorkloads ==
    {w \in 1..Len(WORKLOAD_KEYS) :
        LET workload == ChildOr(evidence, WORKLOAD_KEYS[w], EmptyDict)
            desired == ChildOr(ChildOr(workload, <<"s", "p", "e", "c">>, EmptyDict), <<"r", "e", "p", "l", "i", "c", "a", "s">>, Null)
            ready == ChildOr(ChildOr(workload, <<"s", "t", "a", "t", "u", "s">>, EmptyDict), <<"r", "e", "a", "d", "y", "R", "e", "p", "l", "i", "c", "a", "s">>, Null)
        IN  /\ desired.t = "int"
            /\ desired.n > 0
            /\ (IF ready.t = "int" THEN ready.n ELSE 0) < desired.n}

\* C28: replica_mismatch is true exactly when one of deployment,
\* statefulset, daemonset, replicaset declares spec.replicas = d > 0 and has
\* status.readyReplicas (0 when missing) < d; a workload declaring no
\* count, or 0, does not set it, and a healthy workload after a mismatched
\* one does not clear it.
C28_ReplicaMismatchAcrossWorkloads ==
    Extracted => (signals.replica_mismatch <=> MismatchedWorkloads # {})

\* a mismatched workload followed by a healthy one
C28_Witness ==
    /\ Extracted
    /\ signals.replica_mismatch
    /\ \E w \in MismatchedWorkloads : \E h \in 1..Len(WORKLOAD_KEYS) :
          /\ h > w
          /\ h \notin MismatchedWorkloads
          /\ HasKey(evidence, WORKLOAD_KEYS[h])

----------------------------------------------------------------------------
----------------------------------------------------------------------------
(* Heuristics: app/heuristics.py                                           *)

\* a (cause, confidence, evidence_refs) triple of the table
Rule(cause, confidence, refs) ==
    [cause |-> cause, confidence |-> confidence, evidence_refs |-> refs]

_IMAGE_RULES ==
    <<Rule(<<"I", "m", "a", "g", "e", " ", "n", "a", "m", "e", " ", "o", "r", " ", "t", "a", "g", " ", "i", "n", "v", "a", "l", "i", "d", " ", "/", " ", "n", "o", "t", " ", "f", "o", "u", "n", "d">>, <<"h", "i", "g", "h">>, <<<<"p", "o", "d", ".", "s", "t", "a", "t", "u", "s", ".", "c", "o", "n", "t", "a", "i", "n", "e", "r", "S", "t", "a", "t", "u", "s", "e", "s", "[", "]", ".", "s", "t", "a", "t", "e", ".", "w", "a", "i", "t", "i", "n", "g">>, <<"p", "o", "d", "_", "e", "v", "e", "n", "t", "s">>>>),
      Rule(<<"I", "m", "a", "g", "e", "P", "u", "l", "l", "S", "e", "c", "r", "e", "t", "s", " ", "m", "i", "s", "s", "i", "n", "g", " ", "o", "r", " ", "i", "n", "s", "u", "f", "f", "i", "c", "i", "e", "n", "t">>, <<"h", "i", "g", "h">>, <<<<"p", "o", "d", ".", "s", "p", "e", "c">>, <<"p", "o", "d", "_", "e", "v", "e", "n", "t", "s">>>>),
      Rule(<<"R", "e", "g", "i", "s", "t", "r", "y", " ", "u", "n", "r", "e", "a", "c", "h", "a", "b", "l", "e", " ", "o", "r", " ", "a", "u", "t", "h", " ", "f", "a", "i", "l", "u", "r", "e">>, <<"m", "e", "d", "i", "u", "m">>, <<<<"p", "o", "d", "_", "e", "v", "e", "n", "t", "s">>>>)>>

\* condition -> triples, in the order the table is written
HEURISTIC_RULES ==
    <<[key |-> <<"C", "r", "a", "s", "h", "L", "o", "o", "p", "B", "a", "c", "k", "O", "f", "f">>, rules |->
         <<Rule(<<"A", "p", "p", "l", "i", "c", "a", "t", "i", "o", "n", " ", "e", "x", "i", "t", " ", "/", " ", "c", "r", "a", "s", "h", " ", "(", "n", "o", "n", "-", "z", "e", "r", "o", " ", "e", "x", "i", "t", " ", "c", "o", "d", "e", ")">>, <<"h", "i", "g", "h">>, <<<<"p", "o", "d", ".", "s", "t", "a", "t", "u", "s", ".", "c", "o", "n", "t", "a", "i", "n", "e", "r", "S", "t", "a", "t", "u", "s", "e", "s">>, <<"p", "o", "d", "_", "l", "o", "g", "s">>, <<"p", "r", "e", "v", "i", "o", "u", "s", "_", "l", "o", "g", "s">>>>),
           Rule(<<"O", "O", "M", "K", "i", "l", "l", "e", "d", " ", "(", "o", "u", "t", " ", "o", "f", " ", "m", "e", "m", "o", "r", "y", ")">>, <<"h", "i", "g", "h">>, <<<<"p", "o", "d", ".", "s", "t", "a", "t", "u", "s", ".", "c", "o", "n", "t", "a", "i", "n", "e", "r", "S", "t", "a", "t", "u", "s", "e", "s", "[", "]", ".", "l", "a", "s", "t", "S", "t", "a", "t", "e", ".", "t", "e", "r", "m", "i", "n", "a", "t", "e", "d">>>>),
           Rule(<<"M", "i", "s", "s", "i", "n", "g", " ", "c", "o", "n", "f", "i", "g", " ", "o", "r", " ", "s", "e", "c", "r", "e", "t">>, <<"m", "e", "d", "i", "u", "m">>, <<<<"p", "o", "d", ".", "s", "t", "a", "t", "u", "s", ".", "c", "o", "n", "t", "a", "i", "n", "e", "r", "S", "t", "a", "t", "u", "s", "e", "s">>, <<"p", "o", "d", "_", "e", "v", "e", "n", "t", "s">>>>),
           Rule(<<"S", "t", "a", "r", "t", "u", "p", " ", "p", "r", "o", "b", "e", " ", "o", "r", " ", "r", "e", "a", "d", "i", "n", "e", "s", "s", " ", "f", "a", "i", "l", "u", "r", "e">>, <<"m", "e", "d", "i", "u", "m">>, <<<<"p", "o", "d", ".", "s", "t", "a", "t", "u", "s", ".", "c", "o", "n", "t", "a", "i", "n", "e", "r", "S", "t", "a", "t", "u", "s", "e", "s">>, <<"p", "o", "d", "_", "e", "v", "e", "n", "t", "s">>>>)>>],
      [key |-> <<"I", "m", "a", "g", "e", "P", "u", "l", "l", "B", "a", "c", "k", "O", "f", "f">>, rules |-> _IMAGE_RULES],
      [key |-> <<"E", "r", "r", "I", "m", "a", "g", "e", "P", "u", "l", "l">>, rules |-> _IMAGE_RULES],
      [key |-> <<"U", "n", "s", "c", "h", "e", "d", "u", "l", "a", "b", "l", "e">>, rules |->
         <<Rule(<<"I", "n", "s", "u", "f", "f", "i", "c", "i", "e", "n", "t", " ", "C", "P", "U", "/", "m", "e", "m", "o", "r", "y", " ", "o", "n", " ", "n", "o", "d", "e", "s">>, <<"h", "i", "g", "h">>, <<<<"p", "o", "d", "_", "e", "v", "e", "n", "t", "s">>, <<"n", "o", "d", "e", ".", "s", "t", "a", "t", "u", "s">>>>),
           Rule(<<"N", "o", "d", "e", " ", "s", "e", "l", "e", "c", "t", "o", "r", " ", "o", "r", " ", "a", "f", "f", "i", "n", "i", "t", "y", " ", "n", "o", "t", " ", "s", "a", "t", "i", "s", "f", "i", "e", "d">>, <<"h", "i", "g", "h">>, <<<<"p", "o", "d", ".", "s", "p", "e", "c">>, <<"p", "o", "d", "_", "e", "v", "e", "n", "t", "s">>>>),
           Rule(<<"P", "V", "C", " ", "b", "o", "u", "n", "d", " ", "/", " ", "s", "t", "o", "r", "a", "g", "e", " ", "o", "r", " ", "t", "o", "p", "o", "l", "o", "g", "y", " ", "c", "o", "n", "s", "t", "r", "a", "i", "n", "t">>, <<"m", "e", "d", "i", "u", "m">>, <<<<"p", "o", "d", "_", "e", "v", "e", "n", "t", "s">>>>),
           Rule(<<"T", "a", "i", "n", "t", "s", " ", "/", " ", "n", "o", "d", "e", " ", "u", "n", "s", "c", "h", "e", "d", "u", "l", "a", "b", "l", "e">>, <<"m", "e", "d", "i", "u", "m">>, <<<<"p", "o", "d", "_", "e", "v", "e", "n", "t", "s">>, <<"n", "o", "d", "e", ".", "s", "p", "e", "c", ".", "t", "a", "i", "n", "t", "s">>>>)>>],
      [key |-> <<"O", "O", "M", "K", "i", "l", "l", "e", "d">>, rules |->
         <<Rule(<<"C", "o", "n", "t", "a", "i", "n", "e", "r", " ", "e", "x", "c", "e", "e", "d", "e", "d", " ", "m", "e", "m", "o", "r", "y", " ", "l", "i", "m", "i", "t">>, <<"h", "i", "g", "h">>, <<<<"p", "o", "d", ".", "s", "t", "a", "t", "u", "s", ".", "c", "o", "n", "t", "a", "i", "n", "e", "r", "S", "t", "a", "t", "u", "s", "e", "s", "[", "]", ".", "l", "a", "s", "t", "S", "t", "a", "t", "e", ".", "t", "e", "r", "m", "i", "n", "a", "t", "e", "d">>>>),
           Rule(<<"I", "n", "c", "r", "e", "a", "s", "e", " ", "m", "e", "m", "o", "r", "y", " ", "l", "i", "m", "i", "t", " ", "o", "r", " ", "f", "i", "x", " ", "l", "e", "a", "k">>, <<"h", "i", "g", "h">>, <<<<"p", "o", "d", ".", "s", "p", "e", "c">>, <<"p", "o", "d", "_", "l", "o", "g", "s">>>>)>>],
      [key |-> <<"E", "r", "r", "o", "r">>, rules |->
         <<Rule(<<"A", "p", "p", "l", "i", "c", "a", "t", "i", "o", "n", " ", "c", "r", "a", "s", "h", " ", "o", "r", " ", "n", "o", "n", "-", "z", "e", "r", "o", " ", "e", "x", "i", "t">>, <<"h", "i", "g", "h">>, <<<<"p", "o", "d", ".", "s", "t", "a", "t", "u", "s", ".", "c", "o", "n", "t", "a", "i", "n", "e", "r", "S", "t", "a", "t", "u", "s", "e", "s">>, <<"p", "o", "d", "_", "l", "o", "g", "s">>, <<"p", "r", "e", "v", "i", "o", "u", "s", "_", "l", "o", "g", "s">>>>),
           Rule(<<"C", "h", "e", "c", "k", " ", "l", "o", "g", "s", " ", "f", "o", "r", " ", "s", "t", "a", "c", "k", " ", "t", "r", "a", "c", "e", " ", "o", "r", " ", "e", "r", "r", "o", "r", " ", "m", "e", "s", "s", "a", "g", "e">>, <<"m", "e", "d", "i", "u", "m">>, <<<<"p", "o", "d", "_", "l", "o", "g", "s">>, <<"p", "r", "e", "v", "i", "o", "u", "s", "_", "l", "o", "g", "s">>>>)>>]>>

\* cond in HEURISTIC_RULES
InRules(cond) == \E k \in 1..Len(HEURISTIC_RULES) : HEURISTIC_RULES[k].key = cond

\* HEURISTIC_RULES[cond]
RulesOf(cond) ==
    HEURISTIC_RULES[CHOOSE k \in 1..Len(HEURISTIC_RULES) : HEURISTIC_RULES[k].key = cond].rules

\* status.get("containerStatuses") or [] of (evidence.get("pod") or {}),
\* as the for loop visits it; Err where a step raises
StatusesScanned(evidence_) ==
    Iterated(PyOr(DictGet(SubTree(SubTree(evidence_, <<"p", "o", "d">>), <<"s", "t", "a", "t", "u", "s">>),
                          <<"c", "o", "n", "t", "a", "i", "n", "e", "r", "S", "t", "a", "t", "u", "s", "e", "s">>, Null), List(<<>>)))

\* One (reason, ref) pair a _find_* function appends.
Found(reason, ref) == [reason |-> reason, ref |-> ref]

\* What one look at cs[state_key][inner] appends (heuristics.py:51-57 and
\* 68-74): nothing, one pair, or raised.
ReasonAt(cs, i, state_key, inner) ==
    Bind(DictGet(SubTree(cs, state_key), inner, Null), LAMBDA entry :
        IF IsErr(entry) THEN Raised
        ELSE IF ~(Truthy(entry) /\ entry.t = "dict") THEN Ok(<<>>)
        ELSE Bind(TextOr(DictGet(entry, <<"r", "e", "a", "s", "o", "n">>, Null)), LAMBDA r :
            IF IsErr(r) THEN Raised
            ELSE IF Strip(r.s) = <<>> THEN Ok(<<>>)
            ELSE Ok(<<Found(Str(Strip(r.s)),
                            <<"p", "o", "d", ".", "s", "t", "a", "t", "u", "s", ".", "c", "o", "n", "t", "a", "i", "n", "e", "r", "S", "t", "a", "t", "u", "s", "e", "s", "[">> \o IntChars(i - 1)
                                \o <<"]", ".">> \o state_key \o <<".">> \o inner)>>)))

_find_waiting_reasons(evidence_) ==
    Bind(StatusesScanned(evidence_), LAMBDA statuses :
        IF IsErr(statuses) THEN Raised
        ELSE Flatten([i \in 1..Len(statuses.kids) |->
                         ReasonAt(statuses.kids[i].v, i, <<"s", "t", "a", "t", "e">>, <<"w", "a", "i", "t", "i", "n", "g">>)],
                     Len(statuses.kids)))

_find_terminated_reasons(evidence_) ==
    Bind(StatusesScanned(evidence_), LAMBDA statuses :
        IF IsErr(statuses) THEN Raised
        ELSE Flatten([i \in 1..Len(statuses.kids) |->
                         Then(ReasonAt(statuses.kids[i].v, i, <<"s", "t", "a", "t", "e">>, <<"t", "e", "r", "m", "i", "n", "a", "t", "e", "d">>),
                              ReasonAt(statuses.kids[i].v, i, <<"l", "a", "s", "t", "S", "t", "a", "t", "e">>, <<"t", "e", "r", "m", "i", "n", "a", "t", "e", "d">>))],
                     Len(statuses.kids)))

\* The pairs found under one of the event keys (heuristics.py:82-87).
EventReasons(evidence_, key) ==
    Bind(Iterated(PyOr(DictGet(evidence_, key, Null), List(<<>>))), LAMBDA events :
        IF IsErr(events) THEN Raised
        ELSE Ok(Concat([i \in 1..Len(events.kids) |->
                    LET ev == events.kids[i].v
                    IN  IF ev.t = "dict" /\ Truthy(DictGet(ev, <<"r", "e", "a", "s", "o", "n">>, Null))
                        THEN Ok(<<Found(Get(ev, <<"r", "e", "a", "s", "o", "n">>),
                                        key \o <<"[">> \o IntChars(i - 1) \o <<"]", ".", "r", "e", "a", "s", "o", "n">>)>>)
                        ELSE Ok(<<>>)],
                    Len(events.kids))))

_find_event_reasons(evidence_) ==
    Then(EventReasons(evidence_, <<"p", "o", "d", "_", "e", "v", "e", "n", "t", "s">>), EventReasons(evidence_, <<"n", "o", "d", "e", "_", "e", "v", "e", "n", "t", "s">>))

\* The condition key of a str reason.
_normalize_condition(reason) ==
    LET r == Strip(reason)
    IN  IF r \in {<<"C", "r", "a", "s", "h", "L", "o", "o", "p", "B", "a", "c", "k", "O", "f", "f">>, <<"I", "m", "a", "g", "e", "P", "u", "l", "l", "B", "a", "c", "k", "O", "f", "f">>, <<"E", "r", "r", "I", "m", "a", "g", "e", "P", "u", "l", "l">>,
                  <<"U", "n", "s", "c", "h", "e", "d", "u", "l", "a", "b", "l", "e">>, <<"O", "O", "M", "K", "i", "l", "l", "e", "d">>, <<"E", "r", "r", "o", "r">>}
        THEN r
        ELSE IF r \in {<<"F", "a", "i", "l", "e", "d", "S", "c", "h", "e", "d", "u", "l", "i", "n", "g">>, <<"S", "c", "h", "e", "d", "u", "l", "i", "n", "g">>} THEN <<"U", "n", "s", "c", "h", "e", "d", "u", "l", "a", "b", "l", "e">>
        ELSE r

\* The entry appended for a condition first seen at ref.
HeuristicEntry(cond, ref) ==
    [condition |-> cond, evidence_refs |-> <<ref>>, candidates |-> RulesOf(cond)]

RECURSIVE HeuristicsLoop(_, _, _, _)
\* One of the three loops of compute_heuristics over the first n pairs
\* found, begun with the entries of the loops before it.  seen_conditions
\* holds the conditions of the entries so far; once says whether a
\* condition already seen is passed over.
HeuristicsLoop(found, n, result, once) ==
    IF result.raised \/ found.raised THEN Raised
    ELSE IF n = 0 THEN result
    ELSE Bind(HeuristicsLoop(found, n - 1, result, once), LAMBDA done :
        IF done.raised \/ found.list[n].reason.t # "str" THEN Raised
        ELSE Bind(_normalize_condition(found.list[n].reason.s), LAMBDA cond :
            IF ~InRules(cond)
                  \/ (once /\ \E e \in 1..Len(done.list) : done.list[e].condition = cond)
            THEN done
            ELSE Ok(Append(done.list, HeuristicEntry(cond, found.list[n].ref)))))

\* The three loops, each over the whole list its _find_* call returned.
HeuristicsScan(evidence_, once) ==
    Bind(<<_find_waiting_reasons(evidence_), _find_terminated_reasons(evidence_),
           _find_event_reasons(evidence_)>>, LAMBDA found :
        Bind(HeuristicsLoop(found[1], Len(found[1].list), Ok(<<>>), once), LAMBDA first :
            Bind(HeuristicsLoop(found[2], Len(found[2].list), first, once), LAMBDA second :
                HeuristicsLoop(found[3], Len(found[3].list), second, once))))

\* Mutant: an entry for every path a condition is detected on.
compute_heuristics_every_path(evidence_) == HeuristicsScan(evidence_, FALSE)

\* The entries compute_heuristics returns, or raised.
compute_heuristics(evidence_) == HeuristicsScan(evidence_, TRUE)

----------------------------------------------------------------------------
(* Evidence trees the heuristics are given, and their action               *)

\* _container_state(state): what the collector writes for a container
\* state of the given kind (none, waiting, terminated, running)
_container_state(kind, reason) ==
    CASE kind = "waiting" ->
            Dict(<<Item(<<"w", "a", "i", "t", "i", "n", "g">>, Dict(<<Item(<<"r", "e", "a", "s", "o", "n">>, reason), Item(<<"m", "e", "s", "s", "a", "g", "e">>, Null)>>))>>)
      [] kind = "terminated" ->
            Dict(<<Item(<<"t", "e", "r", "m", "i", "n", "a", "t", "e", "d">>, Dict(<<Item(<<"r", "e", "a", "s", "o", "n">>, reason), Item(<<"e", "x", "i", "t", "C", "o", "d", "e">>, Num(1))>>))>>)
      [] kind = "running" ->
            Dict(<<Item(<<"r", "u", "n", "n", "i", "n", "g">>, Dict(<<Item(<<"s", "t", "a", "r", "t", "e", "d", "A", "t">>, Null)>>))>>)
      [] OTHER -> Null

\* an entry of pod.status.containerStatuses with both of its states
StatusWithStates(state, lastState) ==
    Dict(<<Item(<<"n", "a", "m", "e">>, Str(<<"a", "p", "p">>)), Item(<<"r", "e", "a", "d", "y">>, Bool(FALSE)),
           Item(<<"r", "e", "s", "t", "a", "r", "t", "C", "o", "u", "n", "t">>, Num(1)),
           Item(<<"s", "t", "a", "t", "e">>, state), Item(<<"l", "a", "s", "t", "S", "t", "a", "t", "e">>, lastState)>>)

\* The container statuses drawn: running; crash looping after an OOM kill
\* or an error; terminated by an OOM kill for the second time; terminated
\* with an error after an OOM kill; waiting for an image; waiting for a
\* reason the table does not know; waiting without a reason.
HeuristicStatuses ==
    {StatusWithStates(_container_state("running", Null), Null),
     StatusWithStates(_container_state("waiting", Str(<<"C", "r", "a", "s", "h", "L", "o", "o", "p", "B", "a", "c", "k", "O", "f", "f">>)),
                      _container_state("terminated", Str(<<"O", "O", "M", "K", "i", "l", "l", "e", "d">>))),
     StatusWithStates(_container_state("waiting", Str(<<"C", "r", "a", "s", "h", "L", "o", "o", "p", "B", "a", "c", "k", "O", "f", "f">>)),
                      _container_state("terminated", Str(<<"E", "r", "r", "o", "r">>))),
     StatusWithStates(_container_state("terminated", Str(<<"O", "O", "M", "K", "i", "l", "l", "e", "d">>)),
                      _container_state("terminated", Str(<<"O", "O", "M", "K", "i", "l", "l", "e", "d">>))),
     StatusWithStates(_container_state("terminated", Str(<<"E", "r", "r", "o", "r">>)),
                      _container_state("terminated", Str(<<"O", "O", "M", "K", "i", "l", "l", "e", "d">>))),
     StatusWithStates(_container_state("waiting", Str(<<"I", "m", "a", "g", "e", "P", "u", "l", "l", "B", "a", "c", "k", "O", "f", "f">>)), Null),
     StatusWithStates(_container_state("waiting", Str(<<"C", "o", "n", "t", "a", "i", "n", "e", "r", "C", "r", "e", "a", "t", "i", "n", "g">>)), Null),
     StatusWithStates(_container_state("waiting", Null), Null)}

\* The pod part of the evidence: no pod, a pod of one or of two containers.
HeuristicPodChoices ==
    {<<>>}
        \cup {<<Item(<<"p", "o", "d">>, PodWithStatuses(<<c>>))>> : c \in HeuristicStatuses}
        \cup {<<Item(<<"p", "o", "d">>, PodWithStatuses(<<c, d>>))>> :
                 c \in HeuristicStatuses, d \in HeuristicStatuses}

\* The event part: no events; a pod that could not be scheduled, twice; a
\* container the kernel killed, seen by the pod and by the node; a
\* scheduling event of the node after events the table does not know.
HeuristicEventChoices ==
    {<<>>,
     <<Item(<<"p", "o", "d", "_", "e", "v", "e", "n", "t", "s">>,
            List(<<StoredEvent(<<"W", "a", "r", "n", "i", "n", "g">>, <<"F", "a", "i", "l", "e", "d", "S", "c", "h", "e", "d", "u", "l", "i", "n", "g">>, Str(<<"0", "/", "3", " ", "n", "o", "d", "e", "s", " ", "a", "r", "e", " ", "a", "v", "a", "i", "l", "a", "b", "l", "e">>)),
                   StoredEvent(<<"W", "a", "r", "n", "i", "n", "g">>, <<"F", "a", "i", "l", "e", "d", "S", "c", "h", "e", "d", "u", "l", "i", "n", "g">>, Null)>>))>>,
     <<Item(<<"p", "o", "d", "_", "e", "v", "e", "n", "t", "s">>,
            List(<<StoredEvent(<<"W", "a", "r", "n", "i", "n", "g">>, <<"B", "a", "c", "k", "O", "f", "f">>, Str(<<"r", "e", "s", "t", "a", "r", "t", "i", "n", "g">>)),
                   StoredEvent(<<"W", "a", "r", "n", "i", "n", "g">>, <<"O", "O", "M", "K", "i", "l", "l", "e", "d">>, Null)>>)),
       Item(<<"n", "o", "d", "e", "_", "e", "v", "e", "n", "t", "s">>,
            List(<<StoredEvent(<<"W", "a", "r", "n", "i", "n", "g">>, <<"O", "O", "M", "K", "i", "l", "l", "e", "d">>, Null)>>))>>,
     <<Item(<<"p", "o", "d", "_", "e", "v", "e", "n", "t", "s">>,
            List(<<StoredEvent(<<"N", "o", "r", "m", "a", "l">>, <<>>, Null),
                   StoredEvent(<<"N", "o", "r", "m", "a", "l">>, <<"P", "u", "l", "l", "e", "d">>, Null)>>)),
       Item(<<"n", "o", "d", "e", "_", "e", "v", "e", "n", "t", "s">>,
            List(<<StoredEvent(<<"N", "o", "r", "m", "a", "l">>, <<"S", "c", "h", "e", "d", "u", "l", "i", "n", "g">>, Null),
                   StoredEvent(<<"W", "a", "r", "n", "i", "n", "g">>, <<"F", "a", "i", "l", "e", "d", "S", "c", "h", "e", "d", "u", "l", "i", "n", "g">>, Null)>>))>>}

HeuristicInputs ==
    {Dict(pod \o events) : pod \in HeuristicPodChoices, events \in HeuristicEventChoices}

InitHeur ==
    /\ pc = "heuristics_evidence"
    /\ evidence \in HeuristicInputs
    /\ sanitized = EmptyDict
    /\ resanitized = EmptyDict
    /\ heuristics = Ok(<<>>)
    /\ IdleIntel
    /\ IdleTrunc
    /\ IdleDiff

\* compute_heuristics(evidence)
ComputeHeuristics ==
    /\ pc = "heuristics_evidence"
    /\ \E r \in {compute_heuristics(evidence)} :
          /\ pc' = IF r.raised THEN "heuristics_raised" ELSE "heuristics"
          /\ heuristics' = r
    /\ UNCHANGED <<varsIntel, varsRedact, varsTrunc, varsDiff>>

NextHeur == ComputeHeuristics

SpecHeur == InitHeur /\ [][NextHeur]_vars

----------------------------------------------------------------------------
(* Claims about the heuristics                                             *)

\* The places compute_heuristics looks at, as <<loop, major, minor>>: loop 1
\* the waiting state of container major; loop 2 the terminated state of
\* container major, current (minor 0) before last (minor 1); loop 3 event
\* minor of pod_events (major 0) before those of node_events (major 1).
HeuristicStatusesOf ==
    LET statuses == ChildOr(ChildOr(ChildOr(evidence, <<"p", "o", "d">>, EmptyDict), <<"s", "t", "a", "t", "u", "s">>, EmptyDict),
                            <<"c", "o", "n", "t", "a", "i", "n", "e", "r", "S", "t", "a", "t", "u", "s", "e", "s">>, List(<<>>))
    IN  IF statuses.t = "list" THEN statuses.kids ELSE <<>>

HeuristicEventsOf(major) ==
    LET events == ChildOr(evidence, IF major = 0 THEN <<"p", "o", "d", "_", "e", "v", "e", "n", "t", "s">> ELSE <<"n", "o", "d", "e", "_", "e", "v", "e", "n", "t", "s">>, List(<<>>))
    IN  IF events.t = "list" THEN events.kids ELSE <<>>

Places ==
    {<<1, i, 0>> : i \in 1..Len(HeuristicStatusesOf)}
        \cup {<<2, i, j>> : i \in 1..Len(HeuristicStatusesOf), j \in {0, 1}}
        \cup UNION {{<<3, major, i>> : i \in 1..Len(HeuristicEventsOf(major))} : major \in {0, 1}}

\* p is looked at before q
Earlier(p, q) ==
    \/ p[1] < q[1]
    \/ p[1] = q[1] /\ p[2] < q[2]
    \/ p[1] = q[1] /\ p[2] = q[2] /\ p[3] < q[3]

\* the reason stored at a place, stripped; empty where there is none
PlaceReason(p) ==
    LET holder ==
            IF p[1] = 3 THEN HeuristicEventsOf(p[2])[p[3]].v
            ELSE ChildOr(ChildOr(HeuristicStatusesOf[p[2]].v,
                                 IF p[1] = 1 \/ p[3] = 0 THEN <<"s", "t", "a", "t", "e">> ELSE <<"l", "a", "s", "t", "S", "t", "a", "t", "e">>, EmptyDict),
                         IF p[1] = 1 THEN <<"w", "a", "i", "t", "i", "n", "g">> ELSE <<"t", "e", "r", "m", "i", "n", "a", "t", "e", "d">>, EmptyDict)
        reason == ChildOr(holder, <<"r", "e", "a", "s", "o", "n">>, Null)
    IN  IF reason.t = "str" THEN Strip(reason.s) ELSE <<>>

\* the condition a place shows
PlaceCondition(p) ==
    IF PlaceReason(p) \in {<<"F", "a", "i", "l", "e", "d", "S", "c", "h", "e", "d", "u", "l", "i", "n", "g">>, <<"S", "c", "h", "e", "d", "u", "l", "i", "n", "g">>} THEN <<"U", "n", "s", "c", "h", "e", "d", "u", "l", "a", "b", "l", "e">>
    ELSE PlaceReason(p)

\* the path of a place
PlacePath(p) ==
    CASE p[1] = 1 -> <<"p", "o", "d", ".", "s", "t", "a", "t", "u", "s", ".", "c", "o", "n", "t", "a", "i", "n", "e", "r", "S", "t", "a", "t", "u", "s", "e", "s", "[">> \o IntChars(p[2] - 1) \o <<"]", ".", "s", "t", "a", "t", "e", ".", "w", "a", "i", "t", "i", "n", "g">>
      [] p[1] = 2 /\ p[3] = 0 ->
            <<"p", "o", "d", ".", "s", "t", "a", "t", "u", "s", ".", "c", "o", "n", "t", "a", "i", "n", "e", "r", "S", "t", "a", "t", "u", "s", "e", "s", "[">> \o IntChars(p[2] - 1) \o <<"]", ".", "s", "t", "a", "t", "e", ".", "t", "e", "r", "m", "i", "n", "a", "t", "e", "d">>
      [] p[1] = 2 /\ p[3] = 1 ->
            <<"p", "o", "d", ".", "s", "t", "a", "t", "u", "s", ".", "c", "o", "n", "t", "a", "i", "n", "e", "r", "S", "t", "a", "t", "u", "s", "e", "s", "[">> \o IntChars(p[2] - 1) \o <<"]", ".", "l", "a", "s", "t", "S", "t", "a", "t", "e", ".", "t", "e", "r", "m", "i", "n", "a", "t", "e", "d">>
      [] p[1] = 3 ->
            (IF p[2] = 0 THEN <<"p", "o", "d", "_", "e", "v", "e", "n", "t", "s">> ELSE <<"n", "o", "d", "e", "_", "e", "v", "e", "n", "t", "s">>)
                \o <<"[">> \o IntChars(p[3] - 1) \o <<"]", ".", "r", "e", "a", "s", "o", "n">>

\* the places that show a condition
PlacesOf(cond) == {p \in Places : PlaceCondition(p) = cond}

RuleKeys == {HEURISTIC_RULES[k].key : k \in 1..Len(HEURISTIC_RULES)}

Init ==
    \/ InitIntel \/ InitRedact \/ InitTrunc \/ InitDiff \/ InitDiffSections
    \/ InitExtract \/ InitHeur

Next ==
    \/ NextIntel \/ NextRedact \/ NextTrunc \/ NextDiff \/ NextExtract
    \/ NextHeur

Spec == Init /\ [][Next]_vars

====
